---- MODULE Spec2Model ----
(***************************************************************************)
(* Verification model of the chunk streaming / meshing scheduler:          *)
(*   WorkerPool      (fixed pool of Web Workers with a FIFO task queue)     *)
(*   ChunkManager    (chunk map, dirty scan, mesh job submission, unload)   *)
(*   SceneManager    (per-key registered chunk geometry)                    *)
(*   Chunk / World   (block array, dirty flag, world-space setBlock)        *)
(*                                                                         *)
(* Objects are modelled as records and their methods as operators from     *)
(* records to records, so that a handler that calls several methods is one *)
(* action.  Promise reactions (then / catch / finally) run as microtasks   *)
(* right after the handler that settled the promise and are part of that   *)
(* handler's action.                                                       *)
(***************************************************************************)
EXTENDS Integers, Sequences, FiniteSets, TLC

VARIABLES
    pool,     \* the WorkerPool object, its workers' message channels and its promises
    cm,       \* the ChunkManager object: chunk map and meshingInProgress
    scene,    \* SceneManager.chunkMeshes
    env,      \* bookkeeping of the environment: what has been called so far
    call      \* a call of one of the pure functions (meshChunk, calculateLight,
              \* Chunk.getBlock / setBlock): its arguments and what it returned

vars == <<pool, cm, scene, env, call>>

(***************************************************************************)
(* Bounds of the model.                                                    *)
(***************************************************************************)
\* poolSize handed to the WorkerPool constructor
NumWorkers == 2
\* queueTask calls explored by the pool-only specification
MaxTasks == 4
\* update() calls (frames)
MaxFrames == 3
\* setBlock calls
MaxEdits == 1
\* error events raised by workers
MaxFailures == 1

Workers == 1..NumWorkers

Min(a, b) == IF a <= b THEN a ELSE b

\* the element of a one-element set
Only(S) == CHOOSE x \in S : TRUE

(***************************************************************************)
(* WorkerPool                                                              *)
(***************************************************************************)
\* "no task": resolvers.get(worker) returned undefined
NoTask == [id |-> 0]

\* a Promise returned by queueTask, not yet settled
PendingPromise == [state |-> "pending"]

\* The object the constructor builds: every entry idle, nothing queued.
\*   workers   this.workers (entries, by worker number, in array order)
\*   busy      entry.busy of each entry (entries outlive this.workers in the
\*             closures of onmessage / onerror)
\*   queue     this.queue
\*   resolvers this.resolvers
\*   inbox     messages posted to a worker it has not handled yet
\*   outbox    events a worker has raised that the main thread has not
\*             handled yet (its reply, or an error)
\*   alive     FALSE once worker.terminate() was called
\*   promise   state of the promise of the i-th queueTask call
\*   dispatched  the ids of the tasks posted to a worker so far, in order
NewPool ==
    [ workers    |-> [i \in 1..NumWorkers |-> i],
      busy       |-> [w \in Workers |-> FALSE],
      queue      |-> <<>>,
      resolvers  |-> [w \in Workers |-> NoTask],
      inbox      |-> [w \in Workers |-> <<>>],
      outbox     |-> [w \in Workers |-> <<>>],
      alive      |-> [w \in Workers |-> TRUE],
      promise    |-> <<>>,
      dispatched |-> <<>> ]

\* this.workers.find((w) => !w.busy): the first idle entry in array order, 0 if none
FindIdleAny(p) ==
    IF Len(p.workers) = 0 THEN 0 ELSE p.workers[1]

FindIdle(p) ==
    LET idle == {i \in 1..Len(p.workers) : ~p.busy[p.workers[i]]}
    IN  IF idle = {} THEN 0
        ELSE p.workers[CHOOSE i \in idle : \A j \in idle : i <= j]

\* reject / resolve of a promise: only a pending promise changes state
Settle(p, id, outcome) ==
    IF p.promise[id].state = "pending"
    THEN [p EXCEPT !.promise[id] = outcome]
    ELSE p

\* dispatch(entry, task): mark busy, remember the task, post its data.
\* A message posted to a terminated worker is discarded.
Dispatch(p, w, task) ==
    [p EXCEPT !.busy[w] = TRUE,
              !.resolvers[w] = task,
              !.inbox[w] = IF p.alive[w] THEN Append(@, task) ELSE @,
              !.dispatched = Append(@, task.id)]

\* dispatchNext(entry)
DispatchNextLast(p, w) ==
    IF Len(p.queue) > 0 /\ ~p.busy[w]
    THEN Dispatch([p EXCEPT !.queue = SubSeq(@, 1, Len(@) - 1)], w,
                  p.queue[Len(p.queue)])
    ELSE p

DispatchNext(p, w) ==
    IF Len(p.queue) > 0 /\ ~p.busy[w]
    THEN Dispatch([p EXCEPT !.queue = Tail(@)], w, Head(p.queue))
    ELSE p

QueueTaskAlwaysQueued(p, data) ==
    [p EXCEPT !.promise = Append(@, PendingPromise),
              !.queue = Append(@, [id |-> Len(p.promise) + 1, data |-> data])]

\* queueTask(data): the promise executor runs synchronously
QueueTask(p, data) ==
    LET id   == Len(p.promise) + 1
        task == [id |-> id, data |-> data]
        p1   == [p EXCEPT !.promise = Append(@, PendingPromise)]
        idle == FindIdle(p1)
    IN  IF idle # 0
        THEN Dispatch(p1, idle, task)
        ELSE [p1 EXCEPT !.queue = Append(@, task)]

OnMessageNoRedispatch(p, w, data) ==
    LET task == p.resolvers[w]
    IN  IF task # NoTask
        THEN Settle([p EXCEPT !.resolvers[w] = NoTask, !.busy[w] = FALSE],
                    task.id, [state |-> "fulfilled", value |-> data])
        ELSE p

\* worker.onmessage
OnMessage(p, w, data) ==
    LET task == p.resolvers[w]
        p1 == IF task # NoTask
              THEN Settle([p EXCEPT !.resolvers[w] = NoTask, !.busy[w] = FALSE],
                          task.id, [state |-> "fulfilled", value |-> data])
              ELSE p
    IN  DispatchNext(p1, w)

\* worker.onerror
OnError(p, w) ==
    LET task == p.resolvers[w]
        p1 == IF task # NoTask
              THEN Settle([p EXCEPT !.resolvers[w] = NoTask, !.busy[w] = FALSE],
                          task.id, [state |-> "rejected", reason |-> "ErrorEvent"])
              ELSE p
    IN  DispatchNext(p1, w)

RECURSIVE RejectAll(_, _)
RejectAll(p, q) ==
    IF q = <<>> THEN p
    ELSE RejectAll(Settle(p, Head(q).id,
                          [state |-> "rejected", reason |-> "WorkerPool disposed"]),
                   Tail(q))

\* dispose(): terminate() discards what the worker has not handled and what
\* it has posted that the main thread has not handled.
DisposeKeepingQueue(p) ==
    [p EXCEPT !.alive = [w \in Workers |-> FALSE],
              !.inbox = [w \in Workers |-> <<>>],
              !.outbox = [w \in Workers |-> <<>>],
              !.workers = <<>>,
              !.resolvers = [w \in Workers |-> NoTask]]

DisposePool(p) ==
    LET p1 == [p EXCEPT !.alive = [w \in Workers |-> FALSE],
                        !.inbox = [w \in Workers |-> <<>>],
                        !.outbox = [w \in Workers |-> <<>>],
                        !.workers = <<>>]
        p2 == RejectAll(p1, p1.queue)
    IN  [p2 EXCEPT !.queue = <<>>,
                   !.resolvers = [w \in Workers |-> NoTask]]

\* The worker's side: it handles the oldest message it was posted and either
\* posts a reply or raises an error event; `reply` is what its handler computes.
WorkerHandles(p, w, reply) ==
    [p EXCEPT !.inbox[w] = Tail(@),
              !.outbox[w] = Append(@, [kind |-> "message", data |-> reply])]

WorkerFails(p, w) ==
    [p EXCEPT !.inbox[w] = Tail(@),
              !.outbox[w] = Append(@, [kind |-> "error"])]

\* the main thread takes the oldest event of worker w
TakeEvent(p, w) == [p EXCEPT !.outbox[w] = Tail(@)]

(***************************************************************************)
(* Constants of the program.                                               *)
(***************************************************************************)
CHUNK_SIZE == 16
CHUNK_HEIGHT == 256
\* BlockType.AIR
AIR == 0
\* ChunkManager.maxGeneratePerFrame / maxMeshQueuePerFrame
maxGeneratePerFrame == 3
maxMeshQueuePerFrame == 4

\* The render distance update() passes down as `rd` (RENDER_DISTANCE in the
\* program); the model explores a world scaled down to this distance.
RenderDist == 1

(***************************************************************************)
(* Chunk                                                                   *)
(*   data is the Uint8Array, kept as the set of its non-zero cells         *)
(*   <<index, type>>; every other cell holds 0 (AIR).                      *)
(*   obj identifies the Chunk object (one per `new Chunk`).                *)
(***************************************************************************)
\* Chunk.getIndex
GetIndex(x, y, z) == (x * CHUNK_SIZE + z) * CHUNK_HEIGHT + y

InBoundsNoCeiling(x, y, z) ==
    /\ x >= 0 /\ x < CHUNK_SIZE
    /\ y >= 0
    /\ z >= 0 /\ z < CHUNK_SIZE

\* Chunk.inBounds
InBounds(x, y, z) ==
    /\ x >= 0 /\ x < CHUNK_SIZE
    /\ y >= 0 /\ y < CHUNK_HEIGHT
    /\ z >= 0 /\ z < CHUNK_SIZE

\* this.data[idx]
Cell(data, idx) ==
    IF \E c \in data : c[1] = idx
    THEN (CHOOSE c \in data : c[1] = idx)[2]
    ELSE AIR

\* this.data[idx] = type
WriteCell(data, idx, type) ==
    {c \in data : c[1] # idx} \cup (IF type = AIR THEN {} ELSE {<<idx, type>>})

\* new Chunk(cx, cz): zero-filled, dirty
NewChunk(cx, cz, obj) ==
    [cx |-> cx, cz |-> cz, data |-> {}, dirty |-> TRUE, obj |-> obj]

\* Chunk.getBlock
ChunkGetBlock(chunk, x, y, z) ==
    IF ~InBounds(x, y, z) THEN AIR ELSE Cell(chunk.data, GetIndex(x, y, z))

\* Chunk.setBlock
ChunkSetBlockKeepFlag(chunk, x, y, z, type) ==
    IF ~InBounds(x, y, z) THEN chunk
    ELSE [chunk EXCEPT !.data = WriteCell(@, GetIndex(x, y, z), type)]

ChunkSetBlock(chunk, x, y, z, type) ==
    IF ~InBounds(x, y, z) THEN chunk
    ELSE IF Cell(chunk.data, GetIndex(x, y, z)) # type
         THEN [chunk EXCEPT !.data = WriteCell(@, GetIndex(x, y, z), type),
                            !.dirty = TRUE]
         ELSE chunk

(***************************************************************************)
(* Coordinates                                                             *)
(***************************************************************************)
\* JavaScript's % : the result takes the sign of the dividend
JsRem(a, n) == IF a >= 0 THEN a % n ELSE -((-a) % n)

\* Math.floor(w / CHUNK_SIZE)
WorldToChunk(w) == w \div CHUNK_SIZE

\* ((w % CHUNK_SIZE) + CHUNK_SIZE) % CHUNK_SIZE
WorldToLocal(w) == JsRem(JsRem(w, CHUNK_SIZE) + CHUNK_SIZE, CHUNK_SIZE)

\* chunkKey(cx, cz): the string "cx,cz", one per coordinate pair
ChunkKey(cx, cz) == <<cx, cz>>

\* dx * dx + dz * dz
Dist2(chunk, pcx, pcz) ==
    (chunk.cx - pcx) * (chunk.cx - pcx) + (chunk.cz - pcz) * (chunk.cz - pcz)

(***************************************************************************)
(* The running system: s = [pool, cm, scene, env]                          *)
(*   cm.chunks     the Map this.chunks, as the sequence of its values in   *)
(*                 insertion order (the order its iteration follows)       *)
(*   cm.meshing    this.meshingInProgress                                  *)
(*   cm.reactions  for the i-th promise of the pool, what the reactions    *)
(*                 registered on it by queueChunkMesh have captured: the   *)
(*                 key, and for the record the Chunk object it was for     *)
(*   scene         SceneManager.chunkMeshes: key -> entry                  *)
(*   env           what the callers have done so far                       *)
(***************************************************************************)
NewCM == [chunks |-> <<>>, meshing |-> {}, reactions |-> <<>>]
NewScene == {}

\* no pure function is being called
NoCall == [fn |-> "none"]
\* disposed, disposedAt: dispose() has been called, and how many queueTask
\*   calls had been made when it was last called
\* made: Chunk objects constructed so far
\* started: generateInitialChunks or update has run
\* pos, frames, edits: the observer's chunk at the last update(), the update()
\*   calls and the setBlock calls made
\* failures: error events workers have raised
NewEnv == [disposed |-> FALSE, disposedAt |-> 0, made |-> 0,
           started |-> FALSE, pos |-> <<0, 0>>, frames |-> 0, edits |-> 0,
           failures |-> 0]

\* index of the chunk with this key in the map, 0 when this.chunks.get is undefined
ChunkIndex(c, key) ==
    IF \E i \in 1..Len(c.chunks) : ChunkKey(c.chunks[i].cx, c.chunks[i].cz) = key
    THEN CHOOSE i \in 1..Len(c.chunks) : ChunkKey(c.chunks[i].cx, c.chunks[i].cz) = key
    ELSE 0

\* this.chunks.has(key)
HasChunk(c, key) == ChunkIndex(c, key) # 0

\* this.chunks.get(key), for a key the map holds
GetChunk(c, key) == c.chunks[ChunkIndex(c, key)]

\* markDirty(cx, cz)
MarkDirty(c, cx, cz) ==
    LET i == ChunkIndex(c, ChunkKey(cx, cz))
    IN  IF i # 0 THEN [c EXCEPT !.chunks[i].dirty = TRUE] ELSE c

\* ChunkManager.setBlock
CMSetBlockNoNeighbours(c, wx, wy, wz, type) ==
    LET cx == WorldToChunk(wx)
        cz == WorldToChunk(wz)
        i  == ChunkIndex(c, ChunkKey(cx, cz))
    IN  IF i = 0 THEN c
        ELSE [c EXCEPT !.chunks[i] =
                 ChunkSetBlock(@, WorldToLocal(wx), wy, WorldToLocal(wz), type)]

CMSetBlock(c, wx, wy, wz, type) ==
    LET cx == WorldToChunk(wx)
        cz == WorldToChunk(wz)
        i  == ChunkIndex(c, ChunkKey(cx, cz))
        lx == WorldToLocal(wx)
        lz == WorldToLocal(wz)
        c0 == IF i = 0 THEN c
              ELSE [c EXCEPT !.chunks[i] = ChunkSetBlock(@, lx, wy, lz, type)]
        c1 == IF lx = 0 THEN MarkDirty(c0, cx - 1, cz) ELSE c0
        c2 == IF lx = CHUNK_SIZE - 1 THEN MarkDirty(c1, cx + 1, cz) ELSE c1
        c3 == IF lz = 0 THEN MarkDirty(c2, cx, cz - 1) ELSE c2
        c4 == IF lz = CHUNK_SIZE - 1 THEN MarkDirty(c3, cx, cz + 1) ELSE c3
    IN  IF i = 0 THEN c ELSE c4

\* World.setBlock (whole-number coordinates: Math.floor leaves them as they are)
WorldSetBlock(c, worldX, worldY, worldZ, blockType) ==
    IF worldY < 0 \/ worldY >= CHUNK_HEIGHT THEN c
    ELSE CMSetBlock(c, worldX, worldY, worldZ, blockType)

(***************************************************************************)
(* ChunkManager: generation                                                *)
(***************************************************************************)
Abs(n) == IF n < 0 THEN -n ELSE n
Max(a, b) == IF a >= b THEN a ELSE b

Square(rd) == {<<dx, dz>> : dx \in (0 - rd)..rd, dz \in (0 - rd)..rd}

\* order in which generateNearbyChunks visits the offsets: ring by ring, and
\* within a ring by dx, then dz
SpiralLess(a, b) ==
    LET ra == Max(Abs(a[1]), Abs(a[2]))
        rb == Max(Abs(b[1]), Abs(b[2]))
    IN  \/ ra < rb
        \/ ra = rb /\ a[1] < b[1]
        \/ ra = rb /\ a[1] = b[1] /\ a[2] < b[2]

SpiralFrom(S) ==
    Only({ [i \in 1..Cardinality(S) |-> (CHOOSE r \in ranked : r[1] = i - 1)[2]] :
             ranked \in {{<<Cardinality({b \in S : SpiralLess(b, a)}), a>> : a \in S}} })

\* order of generateInitialChunks: dx outer loop, dz inner loop
RowLess(a, b) == a[1] < b[1] \/ (a[1] = b[1] /\ a[2] < b[2])

RowsFrom(S) ==
    Only({ [i \in 1..Cardinality(S) |-> (CHOOSE r \in ranked : r[1] = i - 1)[2]] :
             ranked \in {{<<Cardinality({b \in S : RowLess(b, a)}), a>> : a \in S}} })

\* new Chunk(cx, cz); generateChunk(chunk); this.chunks.set(key, chunk), for
\* each offset of `take` in turn. The terrain generator is injected and
\* optional; the model runs without one, so a new chunk is all AIR.
AddChunks(s, pcx, pcz, take) ==
    [s EXCEPT !.cm.chunks = @ \o [j \in 1..Len(take) |->
                                    NewChunk(pcx + take[j][1], pcz + take[j][2],
                                             s.env.made + j)],
              !.env.made = @ + Len(take)]

\* generateNearbyChunks: the loops over ring, dx, dz, each ended by the
\* budget. The offsets are distinct, so a position is missing when the loop
\* reaches it exactly when it was missing at the start: the loop creates the
\* first `budget - generated` missing positions in visiting order.
GenScan(s, offs, pcx, pcz, generated, budget) ==
    Only({ AddChunks(s, pcx, pcz,
                     SubSeq(missing, 1, Min(Len(missing), Max(budget - generated, 0)))) :
             missing \in {SelectSeq(offs,
                             LAMBDA o : ~HasChunk(s.cm, ChunkKey(pcx + o[1], pcz + o[2])))} })

GenerateNearbyChunks(s, pcx, pcz, rd) ==
    GenScan(s, SpiralFrom(Square(rd)), pcx, pcz, 0, maxGeneratePerFrame)

(***************************************************************************)
(* ChunkManager: mesh queueing                                             *)
(***************************************************************************)
NeighborKeys == {<<-1, 0>>, <<1, 0>>, <<0, -1>>, <<0, 1>>}

\* neighbors[`${dx},${dz}`] = null
Null == [present |-> FALSE, data |-> {}]

\* queueChunkMesh(key, chunk) for the chunk at index i of the map
QueueChunkMeshOwnOnly(s, i) ==
    LET chunk == s.cm.chunks[i]
        key   == ChunkKey(chunk.cx, chunk.cz)
        message == [type |-> "mesh", chunkX |-> chunk.cx, chunkZ |-> chunk.cz,
                    blocks |-> chunk.data, neighbors |-> [d \in NeighborKeys |-> Null]]
    IN  [s EXCEPT !.cm.meshing = @ \cup {key},
                  !.cm.chunks[i].dirty = FALSE,
                  !.cm.reactions = Append(@, [key |-> key, obj |-> chunk.obj]),
                  !.pool = QueueTask(@, message)]

QueueChunkMesh(s, i) ==
    LET chunk == s.cm.chunks[i]
        key   == ChunkKey(chunk.cx, chunk.cz)
        neighbors ==
            [d \in NeighborKeys |->
                LET nk == ChunkKey(chunk.cx + d[1], chunk.cz + d[2])
                IN  IF HasChunk(s.cm, nk)
                    THEN [present |-> TRUE, data |-> GetChunk(s.cm, nk).data]
                    ELSE Null]
        message == [type |-> "mesh", chunkX |-> chunk.cx, chunkZ |-> chunk.cz,
                    blocks |-> chunk.data, neighbors |-> neighbors]
    IN  [s EXCEPT !.cm.meshing = @ \cup {key},
                  !.cm.chunks[i].dirty = FALSE,
                  !.cm.reactions = Append(@, [key |-> key, obj |-> chunk.obj]),
                  !.pool = QueueTask(@, message)]

\* the chunks from index i of the map on, each with its distance
Candidates(c, i, pcx, pcz) ==
    [j \in 1..(Len(c.chunks) - i + 1) |->
        [idx |-> j + i - 1, dist |-> Dist2(c.chunks[j + i - 1], pcx, pcz)]]

DirtyListUnmarked(c, i, pcx, pcz, rd) ==
    SelectSeq(Candidates(c, i, pcx, pcz),
              LAMBDA e : c.chunks[e.idx].dirty /\ e.dist <= (rd + 1) * (rd + 1))

\* the first loop of queueDirtyChunks: the chunks to mesh, in map order
DirtyList(c, i, pcx, pcz, rd) ==
    SelectSeq(Candidates(c, i, pcx, pcz),
              LAMBDA e : /\ c.chunks[e.idx].dirty
                         /\ ChunkKey(c.chunks[e.idx].cx, c.chunks[e.idx].cz) \notin c.meshing
                         /\ e.dist <= (rd + 1) * (rd + 1))

\* dirtyList.sort((a, b) => a.dist - b.dist): Array.prototype.sort is stable
RECURSIVE SortFarthestFirst(_)
SortFarthestFirst(list) ==
    IF list = <<>> THEN <<>>
    ELSE LET sorted == SortFarthestFirst(SubSeq(list, 1, Len(list) - 1))
             e == list[Len(list)]
             k == Cardinality({j \in 1..Len(sorted) : sorted[j].dist >= e.dist})
         IN  SubSeq(sorted, 1, k) \o <<e>> \o SubSeq(sorted, k + 1, Len(sorted))

\* a stable sort puts element i after every element with a smaller distance
\* and after every earlier element with the same distance
SortByDist(list) ==
    Only({ Only({ [k \in 1..Len(l) |-> l[(CHOOSE r \in ranked : r[1] = k)[2]]] :
                    ranked \in {{<<1 + Cardinality({j \in 1..Len(l) :
                                        \/ l[j].dist < l[i].dist
                                        \/ l[j].dist = l[i].dist /\ j < i}), i>> :
                                  i \in 1..Len(l)}} })
             : l \in {list} })

RECURSIVE QueueEach(_, _)
QueueEach(s, list) ==
    IF list = <<>> THEN s
    ELSE Only({ QueueEach(t, Tail(list)) : t \in {QueueChunkMesh(s, Head(list).idx)} })

\* queueDirtyChunks
QueueDirtyChunks(s, pcx, pcz, rd) ==
    Only({ QueueEach(s, SubSeq(dirtyList, 1, Min(Len(dirtyList), maxMeshQueuePerFrame))) :
             dirtyList \in {SortByDist(DirtyList(s.cm, 1, pcx, pcz, rd))} })

(***************************************************************************)
(* SceneManager                                                            *)
(***************************************************************************)
\* removeChunkMesh(key)
RemoveChunkMesh(sc, key) == {e \in sc : e.key # key}

\* addChunkMesh(key, opaqueMesh, transparentMesh)
AddChunkMesh(sc, key, mesh, job) ==
    RemoveChunkMesh(sc, key) \cup {[key |-> key, mesh |-> mesh, job |-> job]}

\* hasChunkMesh(key)
HasChunkMesh(sc, key) == \E e \in sc : e.key = key

(***************************************************************************)
(* ChunkManager: results, unloading, update                                *)
(***************************************************************************)
\* What the worker's handler posts for a mesh message. The geometry stands
\* for meshChunk(blocks, neighbors, ...) of exactly these inputs; `job` names
\* the task the reply answers.
\* new Uint8Array(blocks.length): every byte 0 (arrays are kept as the set of
\* their non-zero cells, as Chunk.data is)
ZeroLight == {}

\* the light array the worker hands to meshChunk: data.light if the message
\* has one, otherwise an all-zero array
WorkerLight(data) ==
    IF "light" \in DOMAIN data THEN data.light ELSE ZeroLight

MeshReply(task) ==
    [type |-> "meshResult", chunkX |-> task.data.chunkX, chunkZ |-> task.data.chunkZ,
     mesh |-> [blocks |-> task.data.blocks, neighbors |-> task.data.neighbors,
               light |-> WorkerLight(task.data)],
     job |-> task.id]

OnMeshResultUnchecked(s, result) ==
    [s EXCEPT !.scene = AddChunkMesh(@, ChunkKey(result.chunkX, result.chunkZ),
                                     result.mesh, result.job)]

\* onMeshResult
OnMeshResult(s, result) ==
    LET key == ChunkKey(result.chunkX, result.chunkZ)
    IN  IF ~HasChunk(s.cm, key) THEN s
        ELSE [s EXCEPT !.scene = AddChunkMesh(@, key, result.mesh, result.job)]

\* the reactions queueChunkMesh registered on promise `id`, run once it has
\* settled: then(onMeshResult) or catch(console.error), and finally
Reactions(s, id) ==
    LET settled == s.pool.promise[id]
        s1 == IF settled.state = "fulfilled" THEN OnMeshResult(s, settled.value) ELSE s
    IN  [s1 EXCEPT !.cm.meshing = @ \ {s.cm.reactions[id].key}]

\* worker.onmessage / worker.onerror of the pool, followed by the reactions
\* of the promise it settled
OnWorkerEvent(s, w) ==
    LET ev   == Head(s.pool.outbox[w])
        task == s.pool.resolvers[w]
        p0   == TakeEvent(s.pool, w)
        p1   == IF ev.kind = "message" THEN OnMessage(p0, w, ev.data) ELSE OnError(p0, w)
        s1   == [s EXCEPT !.pool = p1]
    IN  IF task # NoTask THEN Reactions(s1, task.id) ELSE s1

\* unloadDistantChunks
KeepNear(chunks, pcx, pcz, maxDist) ==
    SelectSeq(chunks, LAMBDA ch : ~(Dist2(ch, pcx, pcz) > maxDist * maxDist))

UnloadKeepingMeshes(s, pcx, pcz, maxDist) ==
    [s EXCEPT !.cm.chunks = KeepNear(@, pcx, pcz, maxDist)]

UnloadDistantChunks(s, pcx, pcz, maxDist) ==
    LET toRemove == {ChunkKey(s.cm.chunks[i].cx, s.cm.chunks[i].cz) :
                        i \in {j \in 1..Len(s.cm.chunks) :
                                 Dist2(s.cm.chunks[j], pcx, pcz) > maxDist * maxDist}}
    IN  [s EXCEPT !.cm.chunks = KeepNear(@, pcx, pcz, maxDist),
                  !.scene = {e \in @ : e.key \notin toRemove},
                  !.cm.meshing = @ \ toRemove]

\* update(playerX, playerZ)
Update(s, playerX, playerZ, rd) ==
    LET pcx == WorldToChunk(playerX)
        pcz == WorldToChunk(playerZ)
    IN  Only({ Only({ UnloadDistantChunks(s2, pcx, pcz, rd + 2) :
                        s2 \in {QueueDirtyChunks(s1, pcx, pcz, rd)} })
                 : s1 \in {GenerateNearbyChunks(s, pcx, pcz, rd)} })

\* generateInitialChunks(playerX, playerZ)
GenerateInitialChunks(s, playerX, playerZ, rd) ==
    LET pcx == WorldToChunk(playerX)
        pcz == WorldToChunk(playerZ)
        n   == (2 * rd + 1) * (2 * rd + 1)
    IN  Only({ QueueDirtyChunks(s1, pcx, pcz, rd) :
                 s1 \in {GenScan(s, RowsFrom(Square(rd)), pcx, pcz, 0, n)} })

(***************************************************************************)
(* SpecPool: the WorkerPool on its own, driven by arbitrary callers.       *)
(***************************************************************************)
Payloads == {[tag |-> "a"], [tag |-> "b"]}

PoolInit ==
    /\ pool = NewPool
    /\ cm = NewCM
    /\ scene = NewScene
    /\ env = NewEnv
    /\ call = NoCall

PoolQueueTask ==
    /\ Len(pool.promise) < MaxTasks
    /\ \E d \in Payloads : pool' = QueueTask(pool, d)
    /\ UNCHANGED <<cm, scene, env, call>>

PoolWorkerRun ==
    \E w \in Workers :
        /\ pool.alive[w]
        /\ pool.inbox[w] # <<>>
        /\ pool' = WorkerHandles(pool, w, [echo |-> Head(pool.inbox[w]).data])
        /\ UNCHANGED <<cm, scene, env, call>>

PoolWorkerThrow ==
    \E w \in Workers :
        /\ pool.alive[w]
        /\ pool.inbox[w] # <<>>
        /\ pool' = WorkerFails(pool, w)
        /\ UNCHANGED <<cm, scene, env, call>>

PoolOnMessage ==
    \E w \in Workers :
        /\ pool.outbox[w] # <<>>
        /\ Head(pool.outbox[w]).kind = "message"
        /\ pool' = OnMessage(TakeEvent(pool, w), w, Head(pool.outbox[w]).data)
        /\ UNCHANGED <<cm, scene, env, call>>

PoolOnError ==
    \E w \in Workers :
        /\ pool.outbox[w] # <<>>
        /\ Head(pool.outbox[w]).kind = "error"
        /\ pool' = OnError(TakeEvent(pool, w), w)
        /\ UNCHANGED <<cm, scene, env, call>>

PoolDispose ==
    /\ pool' = DisposePool(pool)
    /\ env' = [env EXCEPT !.disposed = TRUE, !.disposedAt = Len(pool.promise)]
    /\ UNCHANGED <<cm, scene, call>>

PoolNext ==
    \/ PoolQueueTask
    \/ PoolWorkerRun
    \/ PoolWorkerThrow
    \/ PoolOnMessage
    \/ PoolOnError
    \/ PoolDispose

SpecPool == PoolInit /\ [][PoolNext]_vars

(***************************************************************************)
(* Claims about the WorkerPool (checked under SpecPool).                   *)
(***************************************************************************)
Pending(p, id) == p.promise[id].state = "pending"

\* the dispatches whose job has not completed: its promise is still pending
InFlight(p) == {i \in 1..Len(p.dispatched) : Pending(p, p.dispatched[i])}

\* C1: at most NumWorkers jobs are dispatched and not yet completed, and no
\* worker holds more than one job: the messages it was posted and has not
\* handled, plus the replies it posted that were not handled, are at most one.
C1_AtMostNInFlight ==
    /\ Cardinality(InFlight(pool)) <= NumWorkers
    /\ \A w \in Workers : Len(pool.inbox[w]) + Len(pool.outbox[w]) <= 1

\* every worker holds a job while another job waits in the queue
C1_Witness ==
    /\ Cardinality(InFlight(pool)) = NumWorkers
    /\ Len(pool.queue) > 0

Completed(p) == Cardinality({id \in 1..Len(p.promise) : ~Pending(p, id)})

\* C2: jobs are dispatched in submission order (the i-th dispatch is the
\* i-th submitted job), and until disposal the number of dispatches is
\* min(submitted, NumWorkers + completed): the first NumWorkers jobs go out
\* at once and every further one only when a worker has completed.
C2_DispatchInSubmissionOrder ==
    /\ \A i \in 1..Len(pool.dispatched) : pool.dispatched[i] = i
    /\ ~env.disposed =>
          Len(pool.dispatched) = Min(Len(pool.promise), NumWorkers + Completed(pool))

\* 2N jobs were submitted and all of them have been dispatched, so N of them
\* waited in the queue for a completion
C2_Witness ==
    /\ ~env.disposed
    /\ Len(pool.promise) = 2 * NumWorkers
    /\ Len(pool.dispatched) = 2 * NumWorkers

\* C3 (as claimed): once dispose() has run, every job that was outstanding,
\* queued or in flight, has a settled (rejected) promise.
C3_DisposeRejectsOutstanding ==
    env.disposed =>
        \A id \in 1..env.disposedAt : ~Pending(pool, id)

Cancelled(p, id) ==
    p.promise[id] = [state |-> "rejected", reason |-> "WorkerPool disposed"]

\* C4: dispose() terminates every worker, rejects the promise of every job
\* waiting in the queue and leaves the queue empty; a job rejected that way
\* is never dispatched.
C4_DisposeRejectsQueued ==
    /\ [](\A id \in 1..Len(pool.promise) :
            Cancelled(pool, id) =>
                /\ \A i \in 1..Len(pool.dispatched) : pool.dispatched[i] # id
                /\ \A i \in 1..Len(pool.queue) : pool.queue[i].id # id)
    /\ [][PoolDispose =>
            /\ \A w \in Workers : ~pool'.alive[w]
            /\ \A i \in 1..Len(pool.queue) : Cancelled(pool', pool.queue[i].id)
            /\ pool'.queue = <<>>]_vars

\* dispose() ran while a job was waiting in the queue
C4_Witness ==
    /\ env.disposed
    /\ \E id \in 1..Len(pool.promise) : Cancelled(pool, id)

(***************************************************************************)
(* SpecCM: the ChunkManager with its WorkerPool and SceneManager, driven   *)
(* by the frame loop (update), block edits (World.setBlock) and the        *)
(* workers.                                                                *)
(***************************************************************************)
Sys == [pool |-> pool, cm |-> cm, scene |-> scene, env |-> env]

Becomes(t) ==
    \E v \in {t} :
        /\ pool' = v.pool
        /\ cm' = v.cm
        /\ scene' = v.scene
        /\ env' = v.env
        /\ UNCHANGED call

\* world positions of the observer handed to update(): the middle of chunk
\* (0, 0), and of a chunk far enough for chunk (0, 0) to be unloaded
HomePos == <<8, 8>>
AwayPos == <<CHUNK_SIZE * (RenderDist + 3) + 8, 8>>
PlayerPositions == {HomePos, AwayPos}

\* setBlock calls: <<worldX, worldY, worldZ, type>>
EditInputs == {<<0, 0, 0, 1>>}

CMInit ==
    /\ pool = NewPool
    /\ cm = NewCM
    /\ scene = NewScene
    /\ env = NewEnv
    /\ call = NoCall

\* generateInitialChunks, called once before the first frame
CMGenerateInitial ==
    /\ ~env.started
    /\ Becomes([GenerateInitialChunks(Sys, HomePos[1], HomePos[2], RenderDist)
                  EXCEPT !.env.started = TRUE,
                         !.env.pos = <<WorldToChunk(HomePos[1]), WorldToChunk(HomePos[2])>>])

\* one frame: update(playerX, playerZ)
CMUpdateAt(p) ==
    /\ env.frames < MaxFrames
    /\ Becomes([Update(Sys, p[1], p[2], RenderDist)
                  EXCEPT !.env.started = TRUE,
                         !.env.pos = <<WorldToChunk(p[1]), WorldToChunk(p[2])>>,
                         !.env.frames = @ + 1])

CMUpdate == \E p \in PlayerPositions : CMUpdateAt(p)

\* World.setBlock
CMSetBlockCall ==
    /\ env.edits < MaxEdits
    /\ \E e \in EditInputs :
        /\ cm' = WorldSetBlock(cm, e[1], e[2], e[3], e[4])
        /\ env' = [env EXCEPT !.edits = @ + 1]
    /\ UNCHANGED <<pool, scene, call>>

\* A worker handles the message it was posted and the main thread handles
\* its reply. The reply depends on the message alone, so whatever the main
\* thread does between the two is the same as if it did it before the
\* worker ran: the two handlers are taken as one step.
CMJobDoneAt(w) ==
    /\ pool.alive[w]
    /\ pool.inbox[w] # <<>>
    /\ Becomes(OnWorkerEvent(
          [Sys EXCEPT !.pool = WorkerHandles(@, w, MeshReply(Head(pool.inbox[w])))], w))

CMJobDone == \E w \in Workers : CMJobDoneAt(w)

\* a worker fails on the message it was posted and the main thread handles
\* the error event
CMJobFailedAt(w) ==
    /\ env.failures < MaxFailures
    /\ pool.alive[w]
    /\ pool.inbox[w] # <<>>
    /\ Becomes(OnWorkerEvent(
          [Sys EXCEPT !.pool = WorkerFails(@, w), !.env.failures = @ + 1], w))

CMJobFailed == \E w \in Workers : CMJobFailedAt(w)

CMNext ==
    \/ CMGenerateInitial
    \/ CMUpdate
    \/ CMSetBlockCall
    \/ CMJobDone
    \/ CMJobFailed

SpecCM == CMInit /\ [][CMNext]_vars


(***************************************************************************)
(* Claims about the ChunkManager (checked under SpecCM).                   *)
(***************************************************************************)
Loaded(c, key) == HasChunk(c, key)

\* the Chunk object `obj` is in the map
ObjLoaded(c, obj) == \E i \in 1..Len(c.chunks) : c.chunks[i].obj = obj

KeyDist2(key, pc) ==
    (key[1] - pc[1]) * (key[1] - pc[1]) + (key[2] - pc[2]) * (key[2] - pc[2])

\* C5 (as claimed): when a worker fails on a mesh job, the job's promise is
\* rejected and the chunk, if still loaded, is dirty afterwards, so that the
\* next dirty scan submits it again.
C5_FailureLeavesChunkDirty ==
    [][\A w \in Workers :
         CMJobFailedAt(w) =>
             LET id == pool.resolvers[w].id
                 r  == cm.reactions[id]
             IN  /\ pool'.promise[id].state = "rejected"
                 /\ ObjLoaded(cm', r.obj) => GetChunk(cm', r.key).dirty]_vars

\* C6 (as claimed): geometry registered for a key comes from a job that was
\* submitted for the Chunk object now loaded under that key: the chunk has
\* stayed loaded since the job was submitted.
C6_NoGeometryFromUnloadedChunk ==
    \A e \in scene :
        /\ Loaded(cm, e.key)
        /\ GetChunk(cm, e.key).obj = cm.reactions[e.job].obj

\* the new mesh jobs of a step: what queueChunkMesh registered during it
Submitted(c, c2) == SubSeq(c2.reactions, Len(c.reactions) + 1, Len(c2.reactions))

\* One dirty scan with the observer in chunk pc took the step from <<c, e>>
\* to <<c2, e2>>: what it submitted and what it left.
ScanRespectsCapAndOrder(c, e, c2, e2, pc, rd) ==
    LET sub == Submitted(c, c2)
    IN  /\ Len(sub) <= maxMeshQueuePerFrame
        /\ \A n \in 1..Len(sub) :
            \* dirty: new in this step, or loaded and dirty before it
            /\ \/ sub[n].obj > e.made
               \/ \E i \in 1..Len(c.chunks) :
                    c.chunks[i].obj = sub[n].obj /\ c.chunks[i].dirty
            /\ sub[n].key \notin c.meshing
            /\ KeyDist2(sub[n].key, pc) <= (rd + 1) * (rd + 1)
        /\ \A m, n \in 1..Len(sub) :
            m < n => KeyDist2(sub[m].key, pc) <= KeyDist2(sub[n].key, pc)
        /\ \A i \in 1..Len(c2.chunks) :
            LET ch == c2.chunks[i]
                k  == ChunkKey(ch.cx, ch.cz)
            IN  (ch.dirty /\ k \notin c2.meshing /\ KeyDist2(k, pc) <= (rd + 1) * (rd + 1))
                    => \A n \in 1..Len(sub) : KeyDist2(k, pc) >= KeyDist2(sub[n].key, pc)

\* C9: every dirty scan (in update and in generateInitialChunks) submits at
\* most maxMeshQueuePerFrame jobs, only for chunks that were dirty, carried no
\* in-flight marker and lie within (rd+1)^2 of the observer, in
\* non-decreasing distance, and leaves no eligible chunk that is strictly
\* closer than a submitted one.
C9_DirtyScanCapAndOrder ==
    [][/\ \A p \in PlayerPositions :
            CMUpdateAt(p) =>
                ScanRespectsCapAndOrder(cm, env, cm', env',
                    <<WorldToChunk(p[1]), WorldToChunk(p[2])>>, RenderDist)
       /\ CMGenerateInitial =>
                ScanRespectsCapAndOrder(cm, env, cm', env',
                    <<WorldToChunk(HomePos[1]), WorldToChunk(HomePos[2])>>, RenderDist)]_vars

\* a scan has filled its cap and left an eligible chunk for the next one
C9_Witness ==
    /\ Len(cm.reactions) >= maxMeshQueuePerFrame
    /\ \E i \in 1..Len(cm.chunks) :
        LET ch == cm.chunks[i]
            k  == ChunkKey(ch.cx, ch.cz)
        IN  /\ ch.dirty
            /\ k \notin cm.meshing
            /\ KeyDist2(k, env.pos) <= (RenderDist + 1) * (RenderDist + 1)

\* C10: after an update() with the observer in chunk pc, no chunk farther
\* than (rd+2)^2 is in the map, has geometry registered or carries an
\* in-flight marker, and every chunk that was loaded within that distance is
\* still loaded.
C10_UnloadPostcondition ==
    [][\A p \in PlayerPositions :
         CMUpdateAt(p) =>
            LET pc  == <<WorldToChunk(p[1]), WorldToChunk(p[2])>>
                far == (RenderDist + 2) * (RenderDist + 2)
            IN  /\ \A i \in 1..Len(cm'.chunks) :
                     Dist2(cm'.chunks[i], pc[1], pc[2]) <= far
                /\ \A e \in scene' : KeyDist2(e.key, pc) <= far
                /\ \A k \in cm'.meshing : KeyDist2(k, pc) <= far
                /\ \A i \in 1..Len(cm.chunks) :
                     Dist2(cm.chunks[i], pc[1], pc[2]) <= far
                        => ObjLoaded(cm', cm.chunks[i].obj)]_vars

\* a chunk that had geometry registered has been unloaded
C10_Witness ==
    \E id \in 1..Len(cm.reactions) :
        /\ pool.promise[id].state = "fulfilled"
        /\ ~ObjLoaded(cm, cm.reactions[id].obj)
        /\ ~Loaded(cm, cm.reactions[id].key)

(***************************************************************************)
(* SpecEdit: World.setBlock over a world whose chunks around the observer  *)
(* are loaded, with jobs being queued and returning in between.            *)
(***************************************************************************)
MaxWorldEdits == 2

\* whole-number world coordinates: both lateral boundaries of a chunk on
\* each axis, an interior cell at the top of the column, negative
\* coordinates next to loaded and to unloaded neighbours, a chunk that is
\* never loaded, and y just outside each end of [0, CHUNK_HEIGHT)
FarX == CHUNK_SIZE * (RenderDist + 1)
EditPositions ==
    {<<0, 0, 0>>,
     <<CHUNK_SIZE - 1, 0, CHUNK_SIZE - 1>>,
     <<7, CHUNK_HEIGHT - 1, 7>>,
     <<-1, 0, 7>>,
     <<-(CHUNK_SIZE * RenderDist), 0, -(CHUNK_SIZE * RenderDist)>>,
     <<FarX, 0, 0>>,
     <<0, -1, 0>>,
     <<0, CHUNK_HEIGHT, 0>>}
EditTypes == {AIR, 1}
WorldEdits == {<<q[1], q[2], q[3], t>> : q \in EditPositions, t \in EditTypes}

EditSetBlockAt(e) ==
    /\ env.edits < MaxWorldEdits
    /\ cm' = WorldSetBlock(cm, e[1], e[2], e[3], e[4])
    /\ env' = [env EXCEPT !.edits = @ + 1]
    /\ UNCHANGED <<pool, scene, call>>

EditSetBlock == \E e \in WorldEdits : EditSetBlockAt(e)

EditFrame == CMUpdateAt(HomePos)

EditNext ==
    \/ CMGenerateInitial
    \/ EditFrame
    \/ EditSetBlock
    \/ CMJobDone

SpecEdit == CMInit /\ [][EditNext]_vars

\* The effect of setBlock(wx, wy, wz, type) from c to c2. With
\* `always`, the containing chunk is dirty afterwards whatever was stored;
\* without it, the chunk becomes dirty when the stored type differs from the
\* written one and keeps its flag otherwise.
SetBlockEffect(c, c2, wx, wy, wz, type, always) ==
    LET cx  == WorldToChunk(wx)
        cz  == WorldToChunk(wz)
        lx  == WorldToLocal(wx)
        lz  == WorldToLocal(wz)
        idx == GetIndex(lx, wy, lz)
        touched == {k \in {<<cx - 1, cz>>, <<cx + 1, cz>>, <<cx, cz - 1>>, <<cx, cz + 1>>} :
                       \/ k = <<cx - 1, cz>> /\ lx = 0
                       \/ k = <<cx + 1, cz>> /\ lx = CHUNK_SIZE - 1
                       \/ k = <<cx, cz - 1>> /\ lz = 0
                       \/ k = <<cx, cz + 1>> /\ lz = CHUNK_SIZE - 1}
    IN  IF ~Loaded(c, <<cx, cz>>) \/ wy < 0 \/ wy >= CHUNK_HEIGHT
        THEN c2 = c
        ELSE /\ Len(c2.chunks) = Len(c.chunks)
             /\ c2.meshing = c.meshing
             /\ c2.reactions = c.reactions
             /\ \A i \in 1..Len(c.chunks) :
                 LET old == c.chunks[i]
                     new == c2.chunks[i]
                     k   == ChunkKey(old.cx, old.cz)
                 IN  /\ ChunkKey(new.cx, new.cz) = k
                     /\ new.obj = old.obj
                     /\ IF k = <<cx, cz>>
                        THEN /\ Cell(new.data, idx) = type
                             /\ {d \in new.data : d[1] # idx} = {d \in old.data : d[1] # idx}
                             /\ new.dirty = (always \/ old.dirty \/ Cell(old.data, idx) # type)
                        ELSE IF k \in touched
                        THEN new.data = old.data /\ new.dirty
                        ELSE new = old

FrameEffect ==
    [Update(Sys, HomePos[1], HomePos[2], RenderDist)
        EXCEPT !.env.started = TRUE,
               !.env.pos = <<WorldToChunk(HomePos[1]), WorldToChunk(HomePos[2])>>]

LiveFrame == Becomes(FrameEffect)

LiveNext ==
    \/ CMGenerateInitial
    \/ LiveFrame
    \/ CMSetBlockCall
    \/ CMJobDone

\* ENABLED <<LiveFrame>>_vars: the frame would generate, queue or unload
FrameEnabled == FrameEffect # Sys

\* ENABLED <<CMJobDoneAt(w)>>_vars: the step takes a message from the inbox
JobEnabled(w) == pool.alive[w] /\ pool.inbox[w] # <<>>

\* Weak fairness of the frame loop and of every worker, with WF_vars(A)
\* written out as []<>~ENABLED <<A>>_vars \/ []<><<A>>_vars and the two
\* ENABLED predicates stated as above.
SpecCMLive ==
    /\ CMInit
    /\ [][LiveNext]_vars
    /\ ([]<>(~FrameEnabled) \/ []<><<LiveFrame>>_vars)
    /\ \A w \in Workers : ([]<>(~JobEnabled(w)) \/ []<><<CMJobDoneAt(w)>>_vars)

\* the chunks World.setBlock can change under EditInputs
EditedKeys == {ChunkKey(WorldToChunk(e[1]), WorldToChunk(e[3])) : e \in EditInputs}

\* the task with this id, while the pool still holds it
TaskOf(p, id) ==
    LET held == {p.queue[n] : n \in 1..Len(p.queue)} \cup {p.resolvers[w] : w \in Workers}
    IN  CHOOSE t \in held : t.id = id

\* a job submitted in the step from c to <<c2, p2>> for the Chunk object
\* `obj`, with `data` as its snapshot
SubmittedWith(c, c2, p2, obj, data) ==
    \E id \in (Len(c.reactions) + 1)..Len(c2.reactions) :
        /\ c2.reactions[id].obj = obj
        /\ TaskOf(p2, id).data.blocks = data

\* chunk k holds an edit and a mesh job for k is outstanding
EditedInFlight(k) ==
    /\ Loaded(cm, k)
    /\ GetChunk(cm, k).data # {}
    /\ k \in cm.meshing

\* the geometry registered for k was built from k's current blocks
DisplaysCurrent(k) ==
    /\ Loaded(cm, k)
    /\ \E e \in scene : e.key = k /\ e.mesh.blocks = GetChunk(cm, k).data

InMeshRange(k) ==
    /\ Loaded(cm, k)
    /\ KeyDist2(k, env.pos) <= (RenderDist + 1) * (RenderDist + 1)

HeldTasks(p) ==
    ({p.queue[n] : n \in 1..Len(p.queue)} \cup {p.resolvers[w] : w \in Workers}) \ {NoTask}

\* the packed light byte calculateLight writes for a voxel the sun reaches
FULL_SUN == 240

\* C11 (as claimed): every mesh job submitted carries the chunk's light array
\* and the map of neighbour light arrays, and the geometry registered for a
\* chunk was meshed with the light calculateLight gives its block snapshot,
\* not an all-zero array: where the topmost voxel of column (0, 0) is AIR,
\* that light is full sun.
C11_JobsCarryLight ==
    /\ \A t \in HeldTasks(pool) :
        {"light", "neighborLights"} \subseteq DOMAIN t.data
    /\ \A e \in scene :
        /\ e.mesh.light # ZeroLight
        /\ Cell(e.mesh.blocks, GetIndex(0, CHUNK_HEIGHT - 1, 0)) = AIR
              => Cell(e.mesh.light, GetIndex(0, CHUNK_HEIGHT - 1, 0)) = FULL_SUN

\* what the chunk map holds for the lateral neighbour d of chunk (cx, cz)
NeighborNow(c, cx, cz, d) ==
    IF HasChunk(c, ChunkKey(cx + d[1], cz + d[2]))
    THEN [present |-> TRUE, data |-> GetChunk(c, ChunkKey(cx + d[1], cz + d[2])).data]
    ELSE Null

\* C12: the input of a mesh job is a snapshot. The blocks and the four
\* neighbour block arrays of a job submitted in a step are the chunk map's
\* data of that step; whatever happens while the pool holds the job (setBlock
\* on the chunk or a neighbour included) leaves its input as it was; and the
\* result that fulfils its promise was built from exactly that input.
C12_JobInputIsSnapshot ==
    [][/\ \A id \in (Len(cm.reactions) + 1)..Len(cm'.reactions) :
            LET t == TaskOf(pool', id)
                r == cm'.reactions[id]
            IN  /\ ObjLoaded(cm', r.obj)
                /\ t.data.blocks = GetChunk(cm', r.key).data
                /\ \A d \in NeighborKeys :
                      t.data.neighbors[d] = NeighborNow(cm', r.key[1], r.key[2], d)
       /\ \A t \in HeldTasks(pool) :
            /\ (\E t2 \in HeldTasks(pool') : t2.id = t.id) => t \in HeldTasks(pool')
            /\ pool'.promise[t.id].state = "fulfilled"
                  => /\ pool'.promise[t.id].value.mesh.blocks = t.data.blocks
                     /\ pool'.promise[t.id].value.mesh.neighbors = t.data.neighbors]_vars

\* the pool holds a job for a loaded chunk whose blocks, or whose western
\* neighbour's blocks, have changed since the job was submitted
C12_Witness ==
    \E t \in HeldTasks(pool) :
        LET r == cm.reactions[t.id]
        IN  /\ ObjLoaded(cm, r.obj)
            /\ \/ t.data.blocks # GetChunk(cm, r.key).data
               \/ /\ t.data.neighbors[<<-1, 0>>].present
                  /\ t.data.neighbors[<<-1, 0>>] # NeighborNow(cm, r.key[1], r.key[2], <<-1, 0>>)

(***************************************************************************)
(* SpecChunk: one Chunk object and calls of its getBlock / setBlock with   *)
(* coordinates inside and outside the chunk.                               *)
(***************************************************************************)
MaxChunkCalls == 3

\* local coordinates: both ends of each range and the first values outside
ChunkXZs == {-1, 0, CHUNK_SIZE - 1, CHUNK_SIZE}
ChunkYs == {-1, 0, CHUNK_HEIGHT - 1, CHUNK_HEIGHT}
ChunkTypes == {AIR, 1, 2}

ChunkInit ==
    /\ pool = NewPool
    /\ cm = NewCM
    /\ scene = NewScene
    /\ env = NewEnv
    /\ call = [fn |-> "chunk", chunk |-> NewChunk(0, 0, 1), calls |-> 0,
               op |-> "new", args |-> <<>>, before |-> NewChunk(0, 0, 1), ret |-> AIR]

ChunkCallSetBlock ==
    /\ call.calls < MaxChunkCalls
    /\ \E x, z \in ChunkXZs, y \in ChunkYs, t \in ChunkTypes :
        call' = [call EXCEPT !.chunk = ChunkSetBlock(@, x, y, z, t),
                             !.calls = @ + 1,
                             !.op = "setBlock",
                             !.args = <<x, y, z, t>>,
                             !.before = call.chunk]
    /\ UNCHANGED <<pool, cm, scene, env>>

ChunkCallGetBlock ==
    /\ call.calls < MaxChunkCalls
    /\ \E x, z \in ChunkXZs, y \in ChunkYs :
        call' = [call EXCEPT !.calls = @ + 1,
                             !.op = "getBlock",
                             !.args = <<x, y, z>>,
                             !.before = call.chunk,
                             !.ret = ChunkGetBlock(call.chunk, x, y, z)]
    /\ UNCHANGED <<pool, cm, scene, env>>

\* chunk.dirty = false, as queueChunkMesh does when it submits the chunk
ChunkCleared ==
    /\ call.chunk.dirty
    /\ call' = [call EXCEPT !.chunk.dirty = FALSE, !.op = "clean", !.args = <<>>,
                            !.before = call.chunk]
    /\ UNCHANGED <<pool, cm, scene, env>>

ChunkNext ==
    \/ ChunkCallSetBlock
    \/ ChunkCallGetBlock
    \/ ChunkCleared

SpecChunk == ChunkInit /\ [][ChunkNext]_vars

\* the coordinates lie in [0,CHUNK_SIZE) x [0,CHUNK_HEIGHT) x [0,CHUNK_SIZE)
Inside(x, y, z) ==
    /\ x \in 0..(CHUNK_SIZE - 1)
    /\ y \in 0..(CHUNK_HEIGHT - 1)
    /\ z \in 0..(CHUNK_SIZE - 1)

\* C13: a setBlock with a coordinate outside the chunk leaves the block array
\* and the dirty flag as they were, a getBlock outside the chunk returns AIR,
\* and a setBlock inside the chunk that changes the voxel sets dirty and
\* makes getBlock at that coordinate return the written type.
C13_OutOfBoundsIsNoOp ==
    LET a == call.args
    IN  /\ (call.op = "setBlock" /\ ~Inside(a[1], a[2], a[3]))
            => call.chunk = call.before
        /\ (call.op = "getBlock" /\ ~Inside(a[1], a[2], a[3]))
            => call.ret = AIR /\ call.chunk = call.before
        /\ (call.op = "setBlock" /\ Inside(a[1], a[2], a[3])
              /\ ChunkGetBlock(call.before, a[1], a[2], a[3]) # a[4])
            => /\ call.chunk.dirty
               /\ ChunkGetBlock(call.chunk, a[1], a[2], a[3]) = a[4]

\* a clean chunk that holds a block has just been handed a setBlock with y
\* one above the top of the column
C13_Witness ==
    /\ call.op = "setBlock"
    /\ call.args[2] = CHUNK_HEIGHT
    /\ Inside(call.args[1], 0, call.args[3])
    /\ call.args[4] # AIR
    /\ call.before.data # {}
    /\ ~call.before.dirty

(***************************************************************************)
(* Chunk-sized arrays of the mesher and the light engine.                  *)
(*                                                                         *)
(* Both modules index one chunk as (x * CHUNK_SIZE + z) * CHUNK_HEIGHT + y *)
(* and loop over 0..CHUNK_SIZE-1 and 0..CHUNK_HEIGHT-1.  They are modelled *)
(* over a chunk of MeshSize x MeshHeight x MeshSize voxels; an array is a  *)
(* function on 0..MeshCells-1.                                             *)
(***************************************************************************)
MeshSize == 2
MeshHeight == 3
MeshCells == MeshSize * MeshSize * MeshHeight
CellIds == 0..(MeshCells - 1)

\* block metadata handed to the mesher (blockInfo) and to calculateLight
\* (isTransparent, emissions), indexed by block type id:
\*   0 air, 1 stone, 2 water, 3 glass, 4 glowstone (opaque, emits 15),
\*   5 torch (transparent, emits 14)
STONE == 1
WATER == 2
GLASS == 3
GLOWSTONE == 4
TORCH == 5
BlockIds == 0..5
isTransparent == [t \in BlockIds |-> t \in {AIR, WATER, GLASS, TORCH}]
emissions == [t \in BlockIds |-> IF t = GLOWSTONE THEN 15 ELSE IF t = TORCH THEN 14 ELSE 0]

\* idx / blockIndex
Idx(x, y, z) == (x * MeshSize + z) * MeshHeight + y

\* the coordinates of array index i
XOf(i) == i \div (MeshSize * MeshHeight)
ZOf(i) == (i \div MeshHeight) % MeshSize
YOf(i) == i % MeshHeight

\* nx < 0 || nx >= CHUNK_SIZE || ny < 0 || ... : the negation
InChunk(x, y, z) ==
    /\ x >= 0 /\ x < MeshSize
    /\ y >= 0 /\ y < MeshHeight
    /\ z >= 0 /\ z < MeshSize

\* 6-connected neighbour offsets
DX == <<1, -1, 0, 0, 0, 0>>
DY == <<0, 0, 1, -1, 0, 0>>
DZ == <<0, 0, 0, 0, 1, -1>>

\* light[i] >> 4 and light[i] & 0x0F
SunOf(byte) == byte \div 16
BlockLightOf(byte) == byte % 16

(***************************************************************************)
(* LightEngine.calculateLight                                              *)
(***************************************************************************)
\* Phase 1: in each column, 0xF0 from the top down to the first voxel that
\* is not transparent
ColumnSunlight(blocks, transp) ==
    [i \in CellIds |->
        IF \A y \in YOf(i)..(MeshHeight - 1) : transp[blocks[Idx(XOf(i), y, ZOf(i))]]
        THEN FULL_SUN ELSE 0]

\* the order of the seeding loops of phase 2: x and z upwards, y downwards
SunScanOrder ==
    [k \in 1..MeshCells |->
        <<(k - 1) \div (MeshSize * MeshHeight),
          MeshHeight - 1 - ((k - 1) % MeshHeight),
          ((k - 1) \div MeshHeight) % MeshSize>>]

\* the order of the seeding loops of phase 3: x, z and y upwards
BlockScanOrder ==
    [k \in 1..MeshCells |->
        <<(k - 1) \div (MeshSize * MeshHeight),
          (k - 1) % MeshHeight,
          ((k - 1) \div MeshHeight) % MeshSize>>]

\* a sunlit voxel, with no darker voxel above it in its column, that has a
\* transparent neighbour in the chunk with less than full sun
IsFrontier(blocks, transp, light, c) ==
    /\ SunOf(light[Idx(c[1], c[2], c[3])]) = 15
    /\ \A y \in (c[2] + 1)..(MeshHeight - 1) : SunOf(light[Idx(c[1], y, c[3])]) = 15
    /\ \E d \in 1..6 :
        LET nx == c[1] + DX[d]
            ny == c[2] + DY[d]
            nz == c[3] + DZ[d]
        IN  /\ InChunk(nx, ny, nz)
            /\ transp[blocks[Idx(nx, ny, nz)]]
            /\ SunOf(light[Idx(nx, ny, nz)]) < 15

\* the six neighbours of the voxel c taken from the sun queue, from d on
RECURSIVE SunVisit(_, _, _, _, _, _, _)
SunVisit(blocks, transp, light, q, c, level, d) ==
    IF d > 6 THEN [light |-> light, q |-> q]
    ELSE LET nx == c[1] + DX[d]
             ny == c[2] + DY[d]
             nz == c[3] + DZ[d]
             ni == Idx(nx, ny, nz)
             newLevel == IF DY[d] = -1 /\ level = 15 THEN 15 ELSE level - 1
         IN  IF ~InChunk(nx, ny, nz) THEN SunVisit(blocks, transp, light, q, c, level, d + 1)
             ELSE IF ~transp[blocks[ni]] THEN SunVisit(blocks, transp, light, q, c, level, d + 1)
             ELSE IF newLevel <= 0 THEN SunVisit(blocks, transp, light, q, c, level, d + 1)
             ELSE IF newLevel > SunOf(light[ni])
             THEN SunVisit(blocks, transp,
                           [light EXCEPT ![ni] = newLevel * 16 + BlockLightOf(@)],
                           Append(q, <<nx, ny, nz>>), c, level, d + 1)
             ELSE SunVisit(blocks, transp, light, q, c, level, d + 1)

\* Phase 2: the loop over the sun queue
RECURSIVE SunSpread(_, _, _, _)
SunSpread(blocks, transp, light, q) ==
    IF q = <<>> THEN light
    ELSE LET c == Head(q)
             r == SunVisit(blocks, transp, light, Tail(q), c,
                           SunOf(light[Idx(c[1], c[2], c[3])]), 1)
         IN  SunSpread(blocks, transp, r.light, r.q)

RECURSIVE BlockVisitUndimmed(_, _, _, _, _, _, _)
BlockVisitUndimmed(blocks, transp, light, q, c, level, d) ==
    IF d > 6 THEN [light |-> light, q |-> q]
    ELSE LET nx == c[1] + DX[d]
             ny == c[2] + DY[d]
             nz == c[3] + DZ[d]
             ni == Idx(nx, ny, nz)
             newLevel == level
         IN  IF ~InChunk(nx, ny, nz) THEN BlockVisitUndimmed(blocks, transp, light, q, c, level, d + 1)
             ELSE IF ~transp[blocks[ni]] THEN BlockVisitUndimmed(blocks, transp, light, q, c, level, d + 1)
             ELSE IF newLevel <= 0 THEN BlockVisitUndimmed(blocks, transp, light, q, c, level, d + 1)
             ELSE IF newLevel > BlockLightOf(light[ni])
             THEN BlockVisitUndimmed(blocks, transp,
                             [light EXCEPT ![ni] = SunOf(@) * 16 + newLevel],
                             Append(q, <<nx, ny, nz>>), c, level, d + 1)
             ELSE BlockVisitUndimmed(blocks, transp, light, q, c, level, d + 1)

\* the six neighbours of the voxel c taken from the block-light queue, from d on
RECURSIVE BlockVisit(_, _, _, _, _, _, _)
BlockVisit(blocks, transp, light, q, c, level, d) ==
    IF d > 6 THEN [light |-> light, q |-> q]
    ELSE LET nx == c[1] + DX[d]
             ny == c[2] + DY[d]
             nz == c[3] + DZ[d]
             ni == Idx(nx, ny, nz)
             newLevel == level - 1
         IN  IF ~InChunk(nx, ny, nz) THEN BlockVisit(blocks, transp, light, q, c, level, d + 1)
             ELSE IF ~transp[blocks[ni]] THEN BlockVisit(blocks, transp, light, q, c, level, d + 1)
             ELSE IF newLevel <= 0 THEN BlockVisit(blocks, transp, light, q, c, level, d + 1)
             ELSE IF newLevel > BlockLightOf(light[ni])
             THEN BlockVisit(blocks, transp,
                             [light EXCEPT ![ni] = SunOf(@) * 16 + newLevel],
                             Append(q, <<nx, ny, nz>>), c, level, d + 1)
             ELSE BlockVisit(blocks, transp, light, q, c, level, d + 1)

\* Phase 3: the loop over the block-light queue
RECURSIVE BlockSpread(_, _, _, _)
BlockSpread(blocks, transp, light, q) ==
    IF q = <<>> THEN light
    ELSE LET c == Head(q)
             r == BlockVisit(blocks, transp, light, Tail(q), c,
                             BlockLightOf(light[Idx(c[1], c[2], c[3])]), 1)
         IN  BlockSpread(blocks, transp, r.light, r.q)

\* calculateLight(blocks, light, isTransparent, emissions): the content of
\* `light` when it returns
CalculateLight(blocks, transp, emit) ==
    LET column == ColumnSunlight(blocks, transp)
        sunQ   == SelectSeq(SunScanOrder, LAMBDA c : IsFrontier(blocks, transp, column, c))
        sunlit == SunSpread(blocks, transp, column, sunQ)
        blkQ   == SelectSeq(BlockScanOrder,
                            LAMBDA c : emit[blocks[Idx(c[1], c[2], c[3])]] > 0)
        seeded == [i \in CellIds |->
                     IF emit[blocks[i]] > 0
                     THEN SunOf(sunlit[i]) * 16 + emit[blocks[i]]
                     ELSE sunlit[i]]
    IN  BlockSpread(blocks, transp, seeded, blkQ)

(***************************************************************************)
(* SpecLight: calculateLight on chunks of air with a few stone voxels and  *)
(* at most one other block.                                                *)
(***************************************************************************)
MaxSolids == 3

\* the sets of at most n array indices
RECURSIVE CellSets(_)
CellSets(n) ==
    IF n = 0 THEN {{}}
    ELSE LET smaller == CellSets(n - 1)
         IN  smaller \cup {s \cup {i} : s \in smaller, i \in CellIds}

\* block arrays: air, stone at up to MaxSolids voxels
StoneArrays ==
    {[i \in CellIds |-> IF i \in s THEN STONE ELSE AIR] : s \in CellSets(MaxSolids)}

\* ... and possibly one voxel of glowstone, torch or water
LightBlockArrays ==
    StoneArrays \cup
    {[b EXCEPT ![i] = t] : b \in StoneArrays, i \in CellIds, t \in {GLOWSTONE, TORCH, WATER}}

\* what the output array holds before the call: zeros, or stale bytes
StaleLights == {[i \in CellIds |-> 0], [i \in CellIds |-> 255]}

LightInit ==
    /\ pool = NewPool
    /\ cm = NewCM
    /\ scene = NewScene
    /\ env = NewEnv
    /\ \E b \in LightBlockArrays, l \in StaleLights :
        call = [fn |-> "calculateLight", blocks |-> b, light |-> l, done |-> FALSE]

LightCall ==
    /\ call.fn = "calculateLight"
    /\ ~call.done
    /\ call' = [call EXCEPT !.light = CalculateLight(call.blocks, isTransparent, emissions),
                            !.done = TRUE]
    /\ UNCHANGED <<pool, cm, scene, env>>

LightNext == LightCall

SpecLight == LightInit /\ [][LightNext]_vars

\* the voxels of the chunk next to voxel i
Adjacent(i) ==
    {Idx(XOf(i) + DX[d], YOf(i) + DY[d], ZOf(i) + DZ[d]) :
        d \in {e \in 1..6 : InChunk(XOf(i) + DX[e], YOf(i) + DY[e], ZOf(i) + DZ[e])}}

\* the voxels light can get to from the voxels of front, entering only voxels of open
RECURSIVE LightReach(_, _, _)
LightReach(front, seen, open) ==
    LET next == {j \in open \ seen : \E i \in front : j \in Adjacent(i)}
    IN  IF next = {} THEN seen ELSE LightReach(next, seen \cup next, open)

\* the voxels that light reaches from the sources only through voxel a
CutOff(srcs, open, a) ==
    (LightReach(srcs, srcs, open) \ LightReach(srcs \ {a}, srcs \ {a}, open \ {a}))
        \ (srcs \cup {a})

TransparentCells(blocks) == {i \in CellIds : isTransparent[blocks[i]]}

\* where sunlight enters: the transparent voxels of the top layer
SkyCells(blocks) == {i \in TransparentCells(blocks) : YOf(i) = MeshHeight - 1}

\* the emitting voxels
EmitterCells(blocks) == {i \in CellIds : emissions[blocks[i]] > 0}

DirectlyBelow(a, b) == XOf(a) = XOf(b) /\ ZOf(a) = ZOf(b) /\ YOf(b) < YOf(a)

\* C18: after calculateLight, light does not grow along the way it travels:
\* when voxel B can be reached from the light sources only through voxel A,
\* each nibble of B is at most that of A, and equal only where the light has
\* run out or, for the sun nibble, where level 15 went straight down from A
\* to B; every opaque voxel has sun nibble 0 and its own emission as block
\* nibble.
C18_LightAttenuates ==
    (call.fn = "calculateLight" /\ call.done) =>
        LET blocks == call.blocks
            light  == call.light
            open   == TransparentCells(blocks)
            sky    == SkyCells(blocks)
            lamps  == EmitterCells(blocks)
        IN  /\ \A a \in CellIds : \A b \in CutOff(sky, open, a) :
                    /\ SunOf(light[b]) <= SunOf(light[a])
                    /\ SunOf(light[b]) = SunOf(light[a]) =>
                          \/ SunOf(light[a]) = 0
                          \/ SunOf(light[a]) = 15 /\ DirectlyBelow(a, b)
            /\ \A a \in CellIds : \A b \in CutOff(lamps, open, a) :
                    /\ BlockLightOf(light[b]) <= BlockLightOf(light[a])
                    /\ BlockLightOf(light[b]) = BlockLightOf(light[a]) =>
                          BlockLightOf(light[a]) = 0
            /\ \A i \in CellIds \ open :
                /\ SunOf(light[i]) = 0
                /\ BlockLightOf(light[i]) = emissions[blocks[i]]

\* a lit chunk where full sun reached a voxel only straight down through the
\* voxel above it, a torch lights a voxel next to it, and a stone voxel is dark
C18_Witness ==
    /\ call.fn = "calculateLight"
    /\ call.done
    /\ LET blocks == call.blocks
           light  == call.light
           open   == TransparentCells(blocks)
       IN  /\ \E a \in CellIds : \E b \in CutOff(SkyCells(blocks), open, a) :
                /\ SunOf(light[b]) = 15
                /\ DirectlyBelow(a, b)
           /\ \E a \in CellIds : \E b \in CutOff(EmitterCells(blocks), open, a) :
                /\ blocks[a] = TORCH
                /\ BlockLightOf(light[b]) = 13
           /\ \E i \in CellIds : blocks[i] = STONE /\ light[i] = 0

(***************************************************************************)
(* ChunkMesher (meshChunk), on the same scaled chunk.  Ambient-occlusion   *)
(* weights are kept in hundredths (0.25 is 25) and texture coordinates in  *)
(* units of 1/16000 (a tile is 1000 wide, the inset eps is 16).            *)
(***************************************************************************)
ATLAS_SIZE == 16

DIR_UP == 0
DIR_DOWN == 1
DIR_NORTH == 2
DIR_SOUTH == 3
DIR_EAST == 4
DIR_WEST == 5
Dirs == DIR_UP..DIR_WEST

DIRECTION_NORMALS ==
    [d \in Dirs |->
        CASE d = DIR_UP    -> <<0, 1, 0>>
          [] d = DIR_DOWN  -> <<0, -1, 0>>
          [] d = DIR_NORTH -> <<0, 0, -1>>
          [] d = DIR_SOUTH -> <<0, 0, 1>>
          [] d = DIR_EAST  -> <<1, 0, 0>>
          [] d = DIR_WEST  -> <<-1, 0, 0>>]

\* the blockInfo table handed to the worker, indexed by block type id
BlockInfoTable ==
    [t \in BlockIds |->
        [id            |-> t,
         transparent   |-> isTransparent[t],
         solid         |-> t \in {STONE, GLASS, GLOWSTONE},
         lightEmission |-> emissions[t],
         faceTextures  |-> [top |-> 3 * t, bottom |-> 3 * t + 1, side |-> 3 * t + 2]]]

blockIndex(x, y, z) == (x * MeshSize + z) * MeshHeight + y

\* a null entry of the neighbour maps handed to meshChunk
NoArray == [present |-> FALSE, data |-> <<>>]

\* neighbors[`${nx},${nz}`]: undefined (no such key) is falsy like null
NeighborEntry(map, nx, nz) ==
    IF <<nx, nz>> \in DOMAIN map THEN map[<<nx, nz>>] ELSE NoArray

\* which chunk of the row a coordinate falls in: -1, 0 or 1
ChunkStep(l) == IF l < 0 THEN -1 ELSE IF l >= MeshSize THEN 1 ELSE 0

getBlockOrNeighbor(blocks, lx, ly, lz, neighbors) ==
    IF ly < 0 \/ ly >= MeshHeight THEN 0
    ELSE LET nx == ChunkStep(lx)
             nz == ChunkStep(lz)
             sx == lx - nx * MeshSize
             sz == lz - nz * MeshSize
             nb == NeighborEntry(neighbors, nx, nz)
         IN  IF nx = 0 /\ nz = 0 THEN blocks[blockIndex(sx, ly, sz)]
             ELSE IF ~nb.present THEN 0
             ELSE nb.data[blockIndex(sx, ly, sz)]

getLightOrNeighbor(light, lx, ly, lz, neighborLights) ==
    IF ly >= MeshHeight THEN FULL_SUN
    ELSE IF ly < 0 THEN 0
    ELSE LET nx == ChunkStep(lx)
             nz == ChunkStep(lz)
             sx == lx - nx * MeshSize
             sz == lz - nz * MeshSize
             nb == NeighborEntry(neighborLights, nx, nz)
         IN  IF nx = 0 /\ nz = 0 THEN light[blockIndex(sx, ly, sz)]
             ELSE IF ~nb.present THEN FULL_SUN
             ELSE nb.data[blockIndex(sx, ly, sz)]

dirToFace(dir) ==
    IF dir = DIR_UP THEN "top" ELSE IF dir = DIR_DOWN THEN "bottom" ELSE "side"

vertexAO(side1, side2, corner) ==
    LET count == side1 + side2 + corner
    IN  IF side1 = 1 /\ side2 = 1 THEN 25
        ELSE CASE count = 0 -> 100
               [] count = 1 -> 75
               [] count = 2 -> 50
               [] OTHER     -> 25

isOccluder(blockId, blockInfo) ==
    IF blockId = 0 THEN 0
    ELSE IF blockId \notin DOMAIN blockInfo THEN 0
    ELSE IF blockInfo[blockId].solid /\ ~blockInfo[blockId].transparent THEN 1 ELSE 0

computeFaceAO(x, y, z, dir, blocks, neighbors, blockInfo) ==
    LET g(dx, dy, dz) ==
            isOccluder(getBlockOrNeighbor(blocks, x + dx, y + dy, z + dz, neighbors), blockInfo)
    IN  CASE dir = DIR_UP ->
                LET s0 == g(-1, 1, 0)   s1 == g(1, 1, 0)
                    s2 == g(0, 1, -1)   s3 == g(0, 1, 1)
                    c0 == g(-1, 1, -1)  c1 == g(1, 1, -1)
                    c2 == g(1, 1, 1)    c3 == g(-1, 1, 1)
                IN  <<vertexAO(s0, s2, c0), vertexAO(s1, s2, c1),
                      vertexAO(s1, s3, c2), vertexAO(s0, s3, c3)>>
          [] dir = DIR_DOWN ->
                LET s0 == g(-1, -1, 0)   s1 == g(1, -1, 0)
                    s2 == g(0, -1, -1)   s3 == g(0, -1, 1)
                    c0 == g(-1, -1, -1)  c1 == g(1, -1, -1)
                    c2 == g(1, -1, 1)    c3 == g(-1, -1, 1)
                IN  <<vertexAO(s0, s3, c3), vertexAO(s1, s3, c2),
                      vertexAO(s1, s2, c1), vertexAO(s0, s2, c0)>>
          [] dir = DIR_NORTH ->
                LET s0 == g(-1, 0, -1)   s1 == g(1, 0, -1)
                    s2 == g(0, -1, -1)   s3 == g(0, 1, -1)
                    c0 == g(-1, -1, -1)  c1 == g(1, -1, -1)
                    c2 == g(1, 1, -1)    c3 == g(-1, 1, -1)
                IN  <<vertexAO(s1, s2, c1), vertexAO(s0, s2, c0),
                      vertexAO(s0, s3, c3), vertexAO(s1, s3, c2)>>
          [] dir = DIR_SOUTH ->
                LET s0 == g(-1, 0, 1)   s1 == g(1, 0, 1)
                    s2 == g(0, -1, 1)   s3 == g(0, 1, 1)
                    c0 == g(-1, -1, 1)  c1 == g(1, -1, 1)
                    c2 == g(1, 1, 1)    c3 == g(-1, 1, 1)
                IN  <<vertexAO(s0, s2, c0), vertexAO(s1, s2, c1),
                      vertexAO(s1, s3, c2), vertexAO(s0, s3, c3)>>
          [] dir = DIR_EAST ->
                LET s0 == g(1, 0, -1)   s1 == g(1, 0, 1)
                    s2 == g(1, -1, 0)   s3 == g(1, 1, 0)
                    c0 == g(1, -1, -1)  c1 == g(1, -1, 1)
                    c2 == g(1, 1, 1)    c3 == g(1, 1, -1)
                IN  <<vertexAO(s1, s2, c1), vertexAO(s0, s2, c0),
                      vertexAO(s0, s3, c3), vertexAO(s1, s3, c2)>>
          [] dir = DIR_WEST ->
                LET s0 == g(-1, 0, -1)   s1 == g(-1, 0, 1)
                    s2 == g(-1, -1, 0)   s3 == g(-1, 1, 0)
                    c0 == g(-1, -1, -1)  c1 == g(-1, -1, 1)
                    c2 == g(-1, 1, 1)    c3 == g(-1, 1, -1)
                IN  <<vertexAO(s0, s2, c0), vertexAO(s1, s2, c1),
                      vertexAO(s1, s3, c2), vertexAO(s0, s3, c3)>>
          [] OTHER -> <<100, 100, 100, 100>>

\* atlasUV, for arguments u0, v0, u1, v1 that are whole numbers
atlasUV(texIndex, u0, v0, u1, v1) ==
    LET col   == texIndex % ATLAS_SIZE
        row   == texIndex \div ATLAS_SIZE
        tile  == 16000 \div ATLAS_SIZE
        eps   == 16
        baseU == col * tile + eps
        baseV == row * tile + eps
        maxU  == (col + 1) * tile - eps
        maxV  == (row + 1) * tile - eps
    IN  <<baseU + (maxU - baseU) * Min(u0, 1),
          baseV + (maxV - baseV) * Min(v0, 1),
          baseU + (maxU - baseU) * Min(u1, 1),
          baseV + (maxV - baseV) * Min(v1, 1)>>

\* getBlock of the mesher
getBlock(blocks, x, y, z) ==
    IF x < 0 \/ x >= MeshSize \/ y < 0 \/ y >= MeshHeight \/ z < 0 \/ z >= MeshSize
    THEN 0
    ELSE blocks[blockIndex(x, y, z)]

\* createTemp(), for a module that kept its scratch arrays between calls
createTempReused ==
    IF call.fn = "meshChunk" /\ call.outs # <<>>
    THEN LET last == call.outs[Len(call.outs)].opaque
         IN  [positions |-> last.positions, normals |-> last.normals, uvs |-> last.uvs,
              aos |-> last.aos, lights |-> last.lights, indices |-> last.indices,
              vertexCount |-> Len(last.aos)]
    ELSE [positions |-> <<>>, normals |-> <<>>, uvs |-> <<>>, aos |-> <<>>,
          lights |-> <<>>, indices |-> <<>>, vertexCount |-> 0]

createTemp ==
    [positions |-> <<>>, normals |-> <<>>, uvs |-> <<>>, aos |-> <<>>,
     lights |-> <<>>, indices |-> <<>>, vertexCount |-> 0]

pushQuad(tmp, v0, v1, v2, v3, normal, uv, ao, faceLight) ==
    LET i == tmp.vertexCount
    IN  [positions   |-> tmp.positions \o v0 \o v1 \o v2 \o v3,
         normals     |-> tmp.normals \o normal \o normal \o normal \o normal,
         uvs         |-> tmp.uvs \o <<uv[1], uv[4], uv[3], uv[4], uv[3], uv[2], uv[1], uv[2]>>,
         aos         |-> tmp.aos \o ao,
         lights      |-> tmp.lights \o <<faceLight, faceLight, faceLight, faceLight>>,
         indices     |-> tmp.indices \o
                            (IF ao[1] + ao[3] > ao[2] + ao[4]
                             THEN <<i, i + 1, i + 2, i, i + 2, i + 3>>
                             ELSE <<i + 1, i + 2, i + 3, i, i + 1, i + 3>>),
         vertexCount |-> i + 4]

\* toMeshData: the typed arrays hold the numbers pushed, in order (whole
\* numbers, quarters and the texture coordinates rounded to float32, which
\* is a function of the value)
toMeshData(tmp) ==
    [positions |-> tmp.positions, normals |-> tmp.normals, uvs |-> tmp.uvs,
     aos |-> tmp.aos, lights |-> tmp.lights, indices |-> tmp.indices]

\* the sweep axis d and the tangent axes u, v of a direction (0 = X, 1 = Y,
\* 2 = Z), and the sizes of the chunk along them
SweepAxes(dir) ==
    IF dir = DIR_UP \/ dir = DIR_DOWN
    THEN [dAxis |-> 1, uAxis |-> 0, vAxis |-> 2,
          dSize |-> MeshHeight, uSize |-> MeshSize, vSize |-> MeshSize]
    ELSE IF dir = DIR_NORTH \/ dir = DIR_SOUTH
    THEN [dAxis |-> 2, uAxis |-> 0, vAxis |-> 1,
          dSize |-> MeshSize, uSize |-> MeshSize, vSize |-> MeshHeight]
    ELSE [dAxis |-> 0, uAxis |-> 2, vAxis |-> 1,
          dSize |-> MeshSize, uSize |-> MeshSize, vSize |-> MeshHeight]

\* pos[dAxis] = d; pos[uAxis] = u; pos[vAxis] = v  (as <<x, y, z>>)
AxisPos(ax, d, u, v) ==
    [k \in 1..3 |-> IF k = ax.dAxis + 1 THEN d ELSE IF k = ax.uAxis + 1 THEN u ELSE v]

MaskEntryNoCull(a, dir, d, u, v) ==
    LET pos     == AxisPos(SweepAxes(dir), d, u, v)
        norm    == DIRECTION_NORMALS[dir]
        blockId == getBlock(a.blocks, pos[1], pos[2], pos[3])
        nlx     == pos[1] + norm[1]
        nly     == pos[2] + norm[2]
        nlz     == pos[3] + norm[3]
        neighborId == getBlockOrNeighbor(a.blocks, nlx, nly, nlz, a.neighborBlocks)
        visible ==
            IF neighborId = 0 THEN TRUE
            ELSE neighborId \in DOMAIN a.blockInfo /\ a.blockInfo[neighborId].transparent
    IN  IF blockId = 0 THEN 0
        ELSE IF blockId \notin DOMAIN a.blockInfo THEN 0
        ELSE IF visible
        THEN blockId + 256 * getLightOrNeighbor(a.light, nlx, nly, nlz, a.neighborLights)
        ELSE 0

\* the mask entry of cell (u, v) of slice d: 0, or blockId | (faceLight << 8)
\* where the face of the block towards dir is visible.  `a` holds the
\* arguments of meshChunk.
MaskEntry(a, dir, d, u, v) ==
    LET pos     == AxisPos(SweepAxes(dir), d, u, v)
        norm    == DIRECTION_NORMALS[dir]
        blockId == getBlock(a.blocks, pos[1], pos[2], pos[3])
        nlx     == pos[1] + norm[1]
        nly     == pos[2] + norm[2]
        nlz     == pos[3] + norm[3]
        neighborId == getBlockOrNeighbor(a.blocks, nlx, nly, nlz, a.neighborBlocks)
        visible ==
            IF neighborId = 0 THEN TRUE
            ELSE IF neighborId \in DOMAIN a.blockInfo /\ a.blockInfo[neighborId].transparent
            THEN ~a.blockInfo[blockId].transparent \/ blockId # neighborId
            ELSE FALSE
    IN  IF blockId = 0 THEN 0
        ELSE IF blockId \notin DOMAIN a.blockInfo THEN 0
        ELSE IF visible
        THEN blockId + 256 * getLightOrNeighbor(a.light, nlx, nly, nlz, a.neighborLights)
        ELSE 0

BuildMask(a, dir, d) ==
    LET ax == SweepAxes(dir)
    IN  [p \in 0..(ax.uSize * ax.vSize - 1) |->
            MaskEntry(a, dir, d, p % ax.uSize, p \div ax.uSize)]

\* the quad of the merged region w x h at (u, v) of slice d, pushed onto
\* the opaque or the transparent arrays
EmitQuad(a, dir, d, u, v, w, h, maskVal, out) ==
    LET ax        == SweepAxes(dir)
        blockId   == maskVal % 256
        faceLight == (maskVal \div 256) % 256
        info      == a.blockInfo[blockId]
        texIndex  == info.faceTextures[dirToFace(dir)]
        pos       == AxisPos(ax, d, u, v)
        base      == IF dir = DIR_UP \/ dir = DIR_SOUTH \/ dir = DIR_EAST
                     THEN [pos EXCEPT ![ax.dAxis + 1] = @ + 1]
                     ELSE pos
        du        == [k \in 1..3 |-> IF k = ax.uAxis + 1 THEN w ELSE 0]
        dv        == [k \in 1..3 |-> IF k = ax.vAxis + 1 THEN h ELSE 0]
        wx        == a.cx * MeshSize
        wz        == a.cz * MeshSize
        b         == <<base[1] + wx, base[2], base[3] + wz>>
        bdu       == <<b[1] + du[1], b[2] + du[2], b[3] + du[3]>>
        bdv       == <<b[1] + dv[1], b[2] + dv[2], b[3] + dv[3]>>
        bduv      == <<b[1] + du[1] + dv[1], b[2] + du[2] + dv[2], b[3] + du[3] + dv[3]>>
        corners   == CASE dir = DIR_UP    -> <<b, bdu, bduv, bdv>>
                       [] dir = DIR_DOWN  -> <<bdv, bduv, bdu, b>>
                       [] dir = DIR_NORTH -> <<bdu, b, bdv, bduv>>
                       [] dir = DIR_SOUTH -> <<b, bdu, bduv, bdv>>
                       [] dir = DIR_EAST  -> <<b, bdv, bduv, bdu>>
                       [] dir = DIR_WEST  -> <<bdu, bduv, bdv, b>>
                       [] OTHER           -> <<b, bdu, bduv, bdv>>
        uv        == atlasUV(texIndex, 0, 0, 1, 1)
        ao        == computeFaceAO(pos[1], pos[2], pos[3], dir,
                                   a.blocks, a.neighborBlocks, a.blockInfo)
    IN  IF info.transparent
        THEN [out EXCEPT !.transparent =
                pushQuad(@, corners[1], corners[2], corners[3], corners[4],
                         DIRECTION_NORMALS[dir], uv, ao, faceLight)]
        ELSE [out EXCEPT !.opaque =
                pushQuad(@, corners[1], corners[2], corners[3], corners[4],
                         DIRECTION_NORMALS[dir], uv, ao, faceLight)]

MergeWidthByBlock(mask, uSize, u, v, maskVal) ==
    Cardinality({w \in 1..(uSize - u) :
                    \A k \in 0..(w - 1) : mask[v * uSize + u + k] % 256 = maskVal % 256})

\* the width of the run of maskVal that starts at (u, v) along u
MergeWidth(mask, uSize, u, v, maskVal) ==
    Cardinality({w \in 1..(uSize - u) :
                    \A k \in 0..(w - 1) : mask[v * uSize + u + k] = maskVal})

MergeHeightOne(mask, uSize, vSize, u, v, w, maskVal) == 1

\* the height the run of that width extends to along v
MergeHeight(mask, uSize, vSize, u, v, w, maskVal) ==
    Cardinality({h \in 1..(vSize - v) :
                    \A hh \in 0..(h - 1), wu \in 0..(w - 1) :
                        mask[(v + hh) * uSize + u + wu] = maskVal})

\* The loops below carry their variables (mask, the output arrays, the
\* position) from one round to the next.  A variable of a round is bound
\* with `x \in {e}`, which computes e once, like a `const` of the source,
\* and Only takes the one result out of the set.

\* the merged region that starts at (u, v): its width, then its height
MergeExtent(mask, uSize, vSize, u, v, maskVal) ==
    LET w == MergeWidth(mask, uSize, u, v, maskVal)
    IN  [w |-> w, h |-> MergeHeight(mask, uSize, vSize, u, v, w, maskVal)]

\* mask with the region w x h at (u, v) set to 0
ClearRegion(mask, uSize, u, v, w, h) ==
    [q \in DOMAIN mask |->
        IF /\ q % uSize \in u..(u + w - 1)
           /\ q \div uSize \in v..(v + h - 1)
        THEN 0 ELSE mask[q]]

\* the greedy merge of one slice, from cell p = v * uSize + u on
RECURSIVE MergeSlice(_, _, _, _, _, _)
MergeSlice(a, dir, d, mask, p, out) ==
    LET ax == SweepAxes(dir)
        u  == p % ax.uSize
        v  == p \div ax.uSize
    IN  IF p >= ax.uSize * ax.vSize THEN out
        ELSE IF mask[p] = 0 THEN MergeSlice(a, dir, d, mask, p + 1, out)
        ELSE Only({
                Only({ MergeSlice(a, dir, d, cleared, next, pushed) :
                        cleared \in {ClearRegion(mask, ax.uSize, u, v, e.w, e.h)},
                        next    \in {p + e.w},
                        pushed  \in {EmitQuad(a, dir, d, u, v, e.w, e.h, mask[p], out)} })
                : e \in {MergeExtent(mask, ax.uSize, ax.vSize, u, v, mask[p])} })

\* the slices d, d + 1, ... of direction dir, then the directions after it
RECURSIVE Sweep(_, _, _, _)
Sweep(a, dir, d, out) ==
    IF dir > DIR_WEST THEN out
    ELSE IF d >= SweepAxes(dir).dSize THEN Sweep(a, dir + 1, 0, out)
    ELSE Only({
            Only({ Sweep(a, dir, d + 1, merged) :
                    merged \in {MergeSlice(a, dir, d, mask, 0, out)} })
            : mask \in {BuildMask(a, dir, d)} })

\* meshChunk; `a` holds its seven arguments
MeshChunk(a) ==
    Only({ [opaque |-> toMeshData(out.opaque), transparent |-> toMeshData(out.transparent)] :
            out \in {Sweep(a, DIR_UP, 0, [opaque |-> createTemp, transparent |-> createTemp])} })

(***************************************************************************)
(* SpecMesh: meshChunk called on a family of chunks: layers of one block   *)
(* type from the floor up with at most one other voxel, or air with two    *)
(* stone voxels; lit by calculateLight or with the all-zero light array;   *)
(* with no neighbours, with copies of itself as neighbours, or with a      *)
(* solid stone chunk to the east.                                          *)
(***************************************************************************)
MaxMeshCalls == 2

\* block type t from y = 0 up to y = k - 1, air above
Layered(t, k) == [i \in CellIds |-> IF YOf(i) < k THEN t ELSE AIR]

LayeredArrays == {Layered(t, k) : t \in BlockIds \ {AIR}, k \in 0..MeshHeight}

\* block type t1 from the floor up to y = k1 - 1, t2 above it up to y = k2 - 1
Stacked(t1, k1, t2, k2) ==
    [i \in CellIds |-> IF YOf(i) < k1 THEN t1 ELSE IF YOf(i) < k2 THEN t2 ELSE AIR]

StackedArrays ==
    {Stacked(t1, k1, t2, k2) :
        t1 \in BlockIds \ {AIR}, t2 \in BlockIds \ {AIR},
        k1 \in 1..(MeshHeight - 1), k2 \in 2..MeshHeight}

MeshBlockArrays ==
    LayeredArrays
    \cup StackedArrays
    \cup {[b EXCEPT ![i] = t] : b \in LayeredArrays, i \in CellIds, t \in BlockIds}
    \cup {[i \in CellIds |-> IF i \in s THEN STONE ELSE AIR] : s \in CellSets(2)}

Present(array) == [present |-> TRUE, data |-> array]

NoNeighbors == [k \in NeighborKeys |-> NoArray]

\* the arguments of one meshChunk call
MeshArgs(blocks, cx, cz, neighborBlocks, light, neighborLights) ==
    [blocks |-> blocks, cx |-> cx, cz |-> cz, neighborBlocks |-> neighborBlocks,
     blockInfo |-> BlockInfoTable, light |-> light, neighborLights |-> neighborLights]

MeshInputs ==
    UNION {
        LET lit  == CalculateLight(b, isTransparent, emissions)
            dark == [i \in CellIds |-> 0]
            rock == Layered(STONE, MeshHeight)
        IN  { MeshArgs(b, 0, 0, NoNeighbors, lit, NoNeighbors),
              MeshArgs(b, 0, 0, NoNeighbors, dark, NoNeighbors),
              MeshArgs(b, -1, 2, [k \in NeighborKeys |-> Present(b)], lit,
                       [k \in NeighborKeys |-> Present(lit)]),
              MeshArgs(b, 0, 0,
                       [k \in NeighborKeys |-> IF k = <<1, 0>> THEN Present(rock) ELSE NoArray],
                       lit,
                       [k \in NeighborKeys |-> IF k = <<1, 0>> THEN Present(dark) ELSE NoArray]) }
        : b \in MeshBlockArrays }

MeshInit ==
    /\ pool = NewPool
    /\ cm = NewCM
    /\ scene = NewScene
    /\ env = NewEnv
    /\ \E a \in MeshInputs : call = [fn |-> "meshChunk", args |-> a, outs |-> <<>>]

\* one call of meshChunk on the arguments; its result is kept
MeshCall ==
    /\ call.fn = "meshChunk"
    /\ Len(call.outs) < MaxMeshCalls
    /\ call' = [call EXCEPT !.outs = Append(@, MeshChunk(call.args))]
    /\ UNCHANGED <<pool, cm, scene, env>>

MeshNext == MeshCall

SpecMesh == MeshInit /\ [][MeshNext]_vars

QuadCount(buf) == Len(buf.aos) \div 4
VertexCount(buf) == Len(buf.positions) \div 3
TriangleCount(buf) == Len(buf.indices) \div 3
QuadNormal(buf, q) == SubSeq(buf.normals, 12 * (q - 1) + 1, 12 * (q - 1) + 3)
VertexPos(buf, q, j) ==
    SubSeq(buf.positions, 12 * (q - 1) + 3 * (j - 1) + 1, 12 * (q - 1) + 3 * (j - 1) + 3)
VertexAOOf(buf, q, j) == buf.aos[4 * (q - 1) + j]

\* the quads of a buffer that face direction dir
QuadsFacing(buf, dir) ==
    {q \in 1..QuadCount(buf) : QuadNormal(buf, q) = DIRECTION_NORMALS[dir]}

OpaqueTypes == {t \in BlockIds \ {AIR} : ~isTransparent[t]}

\* the end-to-end scenario: one opaque block type from the floor up to some
\* height below the top, air above, no neighbour loaded, light computed by
\* calculateLight; the chunk has been meshed
EndToEndScenario ==
    /\ call.fn = "meshChunk"
    /\ Len(call.outs) >= 1
    /\ \E t \in OpaqueTypes, k \in 1..(MeshHeight - 1) : call.args.blocks = Layered(t, k)
    /\ call.args.neighborBlocks = NoNeighbors
    /\ call.args.neighborLights = NoNeighbors
    /\ call.args.light = CalculateLight(call.args.blocks, isTransparent, emissions)

\* C15 (as claimed): in the end-to-end scenario meshChunk emits one merged
\* top quad, four merged side quads and no bottom face: 20 opaque vertices
\* and 10 opaque triangles.
C15_EndToEndCounts ==
    EndToEndScenario =>
        LET m == call.outs[1].opaque
        IN  /\ Cardinality(QuadsFacing(m, DIR_UP)) = 1
            /\ \A dir \in {DIR_NORTH, DIR_SOUTH, DIR_EAST, DIR_WEST} :
                    Cardinality(QuadsFacing(m, dir)) = 1
            /\ QuadsFacing(m, DIR_DOWN) = {}
            /\ VertexCount(m) = 20
            /\ TriangleCount(m) = 10

\* what the code does in that scenario: a sixth quad faces down at y = 0
C15_BottomFaceEmitted ==
    EndToEndScenario =>
        LET m == call.outs[1].opaque
        IN  /\ \A dir \in Dirs : Cardinality(QuadsFacing(m, dir)) = 1
            /\ \A j \in 1..4 : VertexPos(m, CHOOSE q \in QuadsFacing(m, DIR_DOWN) : TRUE, j)[2] = 0
            /\ VertexCount(m) = 24
            /\ TriangleCount(m) = 12
            /\ QuadCount(call.outs[1].transparent) = 0

\* a chunk filled with one opaque block type, no neighbour loaded, meshed
SolidChunkMeshed ==
    /\ call.fn = "meshChunk"
    /\ Len(call.outs) >= 1
    /\ \E t \in OpaqueTypes : call.args.blocks = Layered(t, MeshHeight)
    /\ call.args.neighborBlocks = NoNeighbors
    /\ call.args.neighborLights = NoNeighbors

\* the corners of the outer face of the chunk towards dir, in world space
OuterFaceCorners(cx, cz, dir) ==
    LET n  == DIRECTION_NORMALS[dir]
        xs == IF n[1] = 1 THEN {MeshSize} ELSE IF n[1] = -1 THEN {0} ELSE {0, MeshSize}
        ys == IF n[2] = 1 THEN {MeshHeight} ELSE IF n[2] = -1 THEN {0} ELSE {0, MeshHeight}
        zs == IF n[3] = 1 THEN {MeshSize} ELSE IF n[3] = -1 THEN {0} ELSE {0, MeshSize}
    IN  {<<x + cx * MeshSize, y, z + cz * MeshSize>> : x \in xs, y \in ys, z \in zs}

\* C16: a chunk filled with one opaque block type whose neighbours are all
\* absent is meshed into exactly 6 opaque quads (24 vertices, 36 indices),
\* one per outer face and covering that whole face, with one light value
\* per face, and no transparent quad.
C16_SolidChunkSixQuads ==
    SolidChunkMeshed =>
        LET m == call.outs[1].opaque
        IN  /\ QuadCount(m) = 6
            /\ VertexCount(m) = 24
            /\ Len(m.indices) = 36
            /\ \A dir \in Dirs :
                \E q \in 1..QuadCount(m) :
                    /\ QuadsFacing(m, dir) = {q}
                    /\ {VertexPos(m, q, j) : j \in 1..4} =
                          OuterFaceCorners(call.args.cx, call.args.cz, dir)
                    /\ \A j \in 1..4 : m.lights[4 * (q - 1) + j] = m.lights[4 * (q - 1) + 1]
            /\ QuadCount(call.outs[1].transparent) = 0

\* a solid stone chunk without neighbours was meshed, with geometry
C16_Witness ==
    /\ SolidChunkMeshed
    /\ call.args.blocks = Layered(STONE, MeshHeight)
    /\ QuadCount(call.outs[1].opaque) = 6

\* the smallest and the largest coordinate, along axis k (1..3), of the
\* vertices of quad q, relative to the chunk
QuadLo(a, buf, q, k) ==
    LET off == IF k = 1 THEN a.cx * MeshSize ELSE IF k = 3 THEN a.cz * MeshSize ELSE 0
        cs  == {VertexPos(buf, q, j)[k] - off : j \in 1..4}
    IN  CHOOSE c \in cs : \A e \in cs : c <= e

QuadHi(a, buf, q, k) ==
    LET off == IF k = 1 THEN a.cx * MeshSize ELSE IF k = 3 THEN a.cz * MeshSize ELSE 0
        cs  == {VertexPos(buf, q, j)[k] - off : j \in 1..4}
    IN  CHOOSE c \in cs : \A e \in cs : c >= e

\* the quads of a buffer that face dir and contain the face of the voxel at
\* pos towards dir
FacesOn(a, buf, pos, dir) ==
    LET n == DIRECTION_NORMALS[dir]
    IN  {q \in QuadsFacing(buf, dir) :
            \A k \in 1..3 :
                LET lo == pos[k] + (IF n[k] = 1 THEN 1 ELSE 0)
                    hi == IF n[k] = 0 THEN lo + 1 ELSE lo
                IN  QuadLo(a, buf, q, k) <= lo /\ hi <= QuadHi(a, buf, q, k)}

\* the voxels of the chunk as <<x, y, z>>
Voxels == {<<XOf(i), YOf(i), ZOf(i)>> : i \in CellIds}

\* C17: in the mesh of a chunk, for every voxel A and its neighbour B in the
\* chunk towards dir: when A and B have the same transparent block type, or
\* both are opaque, no quad holds A's face towards B; when A is opaque and
\* B is transparent or air, exactly one quad holds A's face towards B and
\* it is an opaque quad; a transparent A has no face towards an opaque B.
C17_FaceVisibility ==
    (call.fn = "meshChunk" /\ Len(call.outs) >= 1) =>
        LET a == call.args
            m == call.outs[1]
        IN  \A pos \in Voxels, dir \in Dirs :
                LET n    == DIRECTION_NORMALS[dir]
                    idA  == getBlock(a.blocks, pos[1], pos[2], pos[3])
                    idB  == getBlock(a.blocks, pos[1] + n[1], pos[2] + n[2], pos[3] + n[3])
                    solidFaces == Cardinality(FacesOn(a, m.opaque, pos, dir))
                    clearFaces == Cardinality(FacesOn(a, m.transparent, pos, dir))
                IN  InChunk(pos[1] + n[1], pos[2] + n[2], pos[3] + n[3]) =>
                        /\ (idA # AIR /\ isTransparent[idA] /\ idB = idA) =>
                                solidFaces = 0 /\ clearFaces = 0
                        /\ (idA \in OpaqueTypes /\ idB \in OpaqueTypes) =>
                                solidFaces = 0 /\ clearFaces = 0
                        /\ (idA \in OpaqueTypes /\ isTransparent[idB]) =>
                                solidFaces = 1 /\ clearFaces = 0
                        /\ (isTransparent[idA] /\ idB \in OpaqueTypes) =>
                                solidFaces = 0 /\ clearFaces = 0

\* stone under two layers of water was meshed: stone next to stone, water
\* next to water and stone below water all occur, and the stone floor shows
\* an opaque face towards the water
C17_Witness ==
    /\ call.fn = "meshChunk"
    /\ Len(call.outs) >= 1
    /\ call.args.blocks = Stacked(STONE, 1, WATER, MeshHeight)
    /\ Cardinality(FacesOn(call.args, call.outs[1].opaque, <<0, 0, 0>>, DIR_UP)) = 1

\* quad q is the face of a single voxel (nothing was merged into it)
SingleFace(a, buf, q) ==
    \A k \in 1..3 : QuadHi(a, buf, q, k) - QuadLo(a, buf, q, k) <= 1

\* the three voxels around vertex j of the single-voxel quad q, in the layer
\* in front of the face: the two edge neighbours and the diagonal one, each
\* 1 if it occludes and 0 if not, as <<edge, edge, diagonal>>
CornerOccluders(a, buf, q, j) ==
    LET n    == QuadNormal(buf, q)
        off  == <<a.cx * MeshSize, 0, a.cz * MeshSize>>
        p    == VertexPos(buf, q, j)
        \* the voxel in front of the face
        o    == [k \in 1..3 |->
                    IF n[k] = 1 THEN QuadLo(a, buf, q, k)
                    ELSE IF n[k] = -1 THEN QuadLo(a, buf, q, k) - 1
                    ELSE QuadLo(a, buf, q, k)]
        \* towards the vertex, along each tangent axis
        s    == [k \in 1..3 |->
                    IF n[k] # 0 THEN 0
                    ELSE IF p[k] - off[k] = QuadLo(a, buf, q, k) THEN -1 ELSE 1]
        t1   == CHOOSE k \in 1..3 : n[k] = 0
        t2   == CHOOSE k \in 1..3 : n[k] = 0 /\ k # t1
        at(e) == isOccluder(getBlockOrNeighbor(a.blocks, o[1] + e[1], o[2] + e[2], o[3] + e[3],
                                                a.neighborBlocks), a.blockInfo)
        only(k) == [i \in 1..3 |-> IF i = k THEN s[i] ELSE 0]
    IN  <<at(only(t1)), at(only(t2)), at(s)>>

\* the rule of the corner weights, for the single-voxel quads facing dirs
CornerRule(dirs) ==
    (call.fn = "meshChunk" /\ Len(call.outs) >= 1) =>
        \A buf \in {call.outs[1].opaque, call.outs[1].transparent} :
            \A q \in 1..QuadCount(buf), j \in 1..4 :
                /\ VertexAOOf(buf, q, j) \in {25, 50, 75, 100}
                /\ (SingleFace(call.args, buf, q)
                        /\ \E dir \in dirs : QuadNormal(buf, q) = DIRECTION_NORMALS[dir]) =>
                      LET occ == CornerOccluders(call.args, buf, q, j)
                      IN  /\ occ = <<0, 0, 0>> => VertexAOOf(buf, q, j) = 100
                          /\ (occ[1] = 1 /\ occ[2] = 1) => VertexAOOf(buf, q, j) = 25

\* C19 (as claimed): every ambient-occlusion weight meshChunk emits is one
\* of 0.25, 0.5, 0.75, 1.0; on the face of a single voxel, a corner whose
\* two edge neighbours and diagonal neighbour are all non-occluding has
\* weight 1.0 and a corner whose two edge neighbours both occlude has 0.25.
C19_CornerWeights == CornerRule(Dirs)

\* what the code does: the rule holds on the faces towards +Y, -Y, -Z, +Z
C19_CornerWeightsYZ == CornerRule({DIR_UP, DIR_DOWN, DIR_NORTH, DIR_SOUTH})

(***************************************************************************)
(* The reply handler of the WorkerPool (checked under SpecPool).           *)
(***************************************************************************)
\* the main thread handles a reply of worker w in this step
ReplyHandled(w) ==
    /\ pool.outbox[w] # <<>>
    /\ Head(pool.outbox[w]).kind = "message"
    /\ pool'.outbox[w] = Tail(pool.outbox[w])
    /\ pool'.alive[w]

\* C20: when a worker's reply is handled, the promise of the job dispatched
\* to that worker, which was pending, is fulfilled with that reply and no
\* other promise changes; the worker is then idle when the queue is empty,
\* and otherwise the head of the queue is taken off and dispatched to that
\* same worker; no other worker is touched.
C20_ReplySettlesItsJob ==
    [][\A w \in Workers :
        ReplyHandled(w) =>
            LET task  == pool.resolvers[w]
                reply == Head(pool.outbox[w]).data
            IN  /\ task # NoTask
                /\ reply = [echo |-> task.data]
                /\ Pending(pool, task.id)
                /\ pool'.promise =
                      [pool.promise EXCEPT ![task.id] = [state |-> "fulfilled", value |-> reply]]
                /\ IF pool.queue = <<>>
                   THEN /\ ~pool'.busy[w]
                        /\ pool'.resolvers[w] = NoTask
                        /\ pool'.inbox[w] = <<>>
                        /\ pool'.queue = <<>>
                        /\ pool'.dispatched = pool.dispatched
                   ELSE /\ pool'.busy[w]
                        /\ pool'.resolvers[w] = Head(pool.queue)
                        /\ pool'.inbox[w] = <<Head(pool.queue)>>
                        /\ pool'.queue = Tail(pool.queue)
                        /\ pool'.dispatched = Append(pool.dispatched, Head(pool.queue).id)
                /\ \A v \in Workers \ {w} :
                        /\ pool'.busy[v] = pool.busy[v]
                        /\ pool'.resolvers[v] = pool.resolvers[v]
                        /\ pool'.inbox[v] = pool.inbox[v]
                        /\ pool'.outbox[v] = pool.outbox[v]]_vars

\* the first job's reply was handled while two jobs waited: its promise is
\* fulfilled with its echo, its worker now holds the job that headed the
\* queue, the other job still waits and no other promise is settled
C20_Witness ==
    /\ ~env.disposed
    /\ Len(pool.promise) = NumWorkers + 2
    /\ pool.promise[1] = [state |-> "fulfilled", value |-> [echo |-> [tag |-> "a"]]]
    /\ \A id \in 2..Len(pool.promise) : Pending(pool, id)
    /\ pool.resolvers[1].id = NumWorkers + 1
    /\ pool.inbox[1] = <<pool.resolvers[1]>>
    /\ Len(pool.queue) = 1

(***************************************************************************)
(* Claims about the in-flight marker (checked under SpecCM).               *)
(***************************************************************************)
\* the jobs submitted by the step from c to c2
NewJobs(c, c2) == (Len(c.reactions) + 1)..Len(c2.reactions)

\* a job registered for key k settles in the step from p to p2
JobSettles(c, p, p2, k) ==
    \E id \in 1..Len(c.reactions) :
        c.reactions[id].key = k /\ Pending(p, id) /\ ~Pending(p2, id)

C22_OneJobPerKey ==
    \A t1, t2 \in HeldTasks(pool) :
        cm.reactions[t1.id].key = cm.reactions[t2.id].key => t1.id = t2.id

\* C23 (as claimed): whenever a loaded chunk is clean and carries no
\* in-flight marker, the geometry registered for its key was built from a
\* block snapshot equal to the chunk's current blocks.
C23_CleanChunkShowsCurrentBlocks ==
    \A i \in 1..Len(cm.chunks) :
        LET ch == cm.chunks[i]
            k  == ChunkKey(ch.cx, ch.cz)
        IN  (~ch.dirty /\ k \notin cm.meshing)
                => \A e \in scene : e.key = k => e.mesh.blocks = ch.data

(***************************************************************************)
(* SpecStream: chunk streaming at the program's own render distance. The   *)
(* frame loop runs update() with the observer in chunk (0, 0) or in the    *)
(* chunk next to it, after generateInitialChunks or from an empty map,     *)
(* while the workers answer mesh jobs.                                     *)
(***************************************************************************)
RENDER_DISTANCE == 8

\* update() calls explored
MaxStreamFrames == 2

\* the observer in the middle of chunk (0, 0), and one chunk further east
NextPos == <<CHUNK_SIZE + 8, 8>>
StreamPositions == {HomePos, NextPos}

StreamInit ==
    /\ pool = NewPool
    /\ cm = NewCM
    /\ scene = NewScene
    /\ env = NewEnv
    /\ call = NoCall

StreamGenerateInitial ==
    /\ ~env.started
    /\ Becomes([GenerateInitialChunks(Sys, HomePos[1], HomePos[2], RENDER_DISTANCE)
                  EXCEPT !.env.started = TRUE,
                         !.env.pos = <<WorldToChunk(HomePos[1]), WorldToChunk(HomePos[2])>>])

StreamUpdateAt(p) ==
    /\ env.frames < MaxStreamFrames
    /\ Becomes([Update(Sys, p[1], p[2], RENDER_DISTANCE)
                  EXCEPT !.env.started = TRUE,
                         !.env.pos = <<WorldToChunk(p[1]), WorldToChunk(p[2])>>,
                         !.env.frames = @ + 1])

StreamUpdate == \E p \in StreamPositions : StreamUpdateAt(p)

StreamNext ==
    \/ StreamGenerateInitial
    \/ StreamUpdate
    \/ CMJobDone

SpecStream == StreamInit /\ [][StreamNext]_vars

(***************************************************************************)
(* Claims about streaming at RENDER_DISTANCE (checked under SpecStream).   *)
(***************************************************************************)
ChunkOf(p) == <<WorldToChunk(p[1]), WorldToChunk(p[2])>>

\* the keys of the loaded chunks
LoadedKeys(c) == {ChunkKey(c.chunks[i].cx, c.chunks[i].cz) : i \in 1..Len(c.chunks)}

\* offsets update() may generate at and does not unload
KeptOffsets ==
    {o \in Square(RENDER_DISTANCE) :
        o[1] * o[1] + o[2] * o[2] <= (RENDER_DISTANCE + 2) * (RENDER_DISTANCE + 2)}

\* every chunk update() is to keep loaded around pc is loaded, and no loaded
\* chunk lies beyond the unload distance
FullyLoaded(c, pc) ==
    /\ \A o \in KeptOffsets : Loaded(c, ChunkKey(pc[1] + o[1], pc[2] + o[2]))
    /\ \A i \in 1..Len(c.chunks) :
          Dist2(c.chunks[i], pc[1], pc[2]) <= (RENDER_DISTANCE + 2) * (RENDER_DISTANCE + 2)

\* C24 (as claimed): with the observer staying in one chunk the loaded set
\* settles: once every chunk within the render square and the unload
\* distance is loaded and nothing lies beyond the unload distance, an
\* update() with the observer in the same chunk generates no chunk and
\* unloads none.
C24_StreamingSettles ==
    [][\A p \in StreamPositions :
         (StreamUpdateAt(p) /\ ChunkOf(p) = env.pos /\ FullyLoaded(cm, env.pos))
            => /\ env'.made = env.made
               /\ LoadedKeys(cm') = LoadedKeys(cm)]_vars

\* C25 (as claimed): a chunk at a position eligible for generation is not
\* removed while the observer is in the same chunk: the chunks an update()
\* creates are loaded when it returns, and so is every chunk that was loaded
\* within the render square of the observer, whose chunk has not changed
\* since the call before.
C25_GeneratedStaysLoaded ==
    [][\A p \in StreamPositions :
         StreamUpdateAt(p) =>
            /\ \A obj \in (env.made + 1)..env'.made : ObjLoaded(cm', obj)
            /\ ChunkOf(p) = env.pos =>
                  \A i \in 1..Len(cm.chunks) :
                     (/\ Abs(cm.chunks[i].cx - env.pos[1]) <= RENDER_DISTANCE
                      /\ Abs(cm.chunks[i].cz - env.pos[2]) <= RENDER_DISTANCE)
                        => ObjLoaded(cm', cm.chunks[i].obj)]_vars

(***************************************************************************)
(* Claims about neighbour snapshots (checked under SpecCM).                *)
(***************************************************************************)
\* the cells of a neighbour's block array that meshing the chunk reads: its
\* column of voxels that touches the chunk, d being the neighbour's offset
BoundaryCells(data, d) ==
    {c \in data :
        LET x == c[1] \div (CHUNK_SIZE * CHUNK_HEIGHT)
            z == (c[1] \div CHUNK_HEIGHT) % CHUNK_SIZE
        IN  \/ d = <<-1, 0>> /\ x = CHUNK_SIZE - 1
            \/ d = <<1, 0>> /\ x = 0
            \/ d = <<0, -1>> /\ z = CHUNK_SIZE - 1
            \/ d = <<0, 1>> /\ z = 0}

\* C26 (as claimed): whenever a loaded chunk is clean and carries no
\* in-flight marker, the neighbour snapshots its registered geometry was
\* built from agree with the chunk map: each of its 4 lateral neighbours is
\* loaded exactly if the snapshot had it, with the same boundary blocks.
C26_NeighbourSnapshotsCurrent ==
    \A i \in 1..Len(cm.chunks) :
        LET ch == cm.chunks[i]
            k  == ChunkKey(ch.cx, ch.cz)
        IN  (~ch.dirty /\ k \notin cm.meshing) =>
                \A e \in scene : e.key = k =>
                    \A d \in NeighborKeys :
                        LET now == NeighborNow(cm, ch.cx, ch.cz, d)
                        IN  /\ e.mesh.neighbors[d].present = now.present
                            /\ BoundaryCells(e.mesh.neighbors[d].data, d)
                                  = BoundaryCells(now.data, d)

(***************************************************************************)
(* Claims about the bookkeeping of the WorkerPool (checked under SpecPool). *)
(***************************************************************************)
\* C27: until dispose() the pool is work-conserving and its bookkeeping
\* agrees: while a task waits in the queue every worker is busy, and a
\* worker is marked busy exactly when the resolvers map holds a task for it.
C27_WorkConserving ==
    ~env.disposed =>
        /\ Len(pool.queue) > 0 => \A w \in Workers : pool.busy[w]
        /\ \A w \in Workers : pool.busy[w] <=> pool.resolvers[w] # NoTask

\* a task waits in the queue after a worker has completed one and taken the
\* next from the queue
C27_Witness ==
    /\ ~env.disposed
    /\ Len(pool.queue) > 0
    /\ Completed(pool) > 0
    /\ \A w \in Workers : pool.busy[w] /\ pool.resolvers[w] # NoTask

\* no worker holds a message and no reply or error is waiting to be handled:
\* nothing that could settle a promise is still to come
PoolQuiet == \A w \in Workers : pool.inbox[w] = <<>> /\ pool.outbox[w] = <<>>

\* C28 (as claimed): every promise returned by queueTask settles once the
\* workers have answered every message they received, also for jobs in
\* flight at dispose() and for jobs submitted after dispose(): when nothing
\* is left to be answered or handled, no promise is pending.
C28_EveryPromiseSettles ==
    PoolQuiet => \A id \in 1..Len(pool.promise) : ~Pending(pool, id)

(***************************************************************************)
(* Claims about markers and geometry of unloaded chunks (under SpecCM).    *)
(***************************************************************************)
\* C29: the keys that carry an in-flight marker and the keys with geometry
\* registered in the scene are keys of loaded chunks.
C29_MarkersAndMeshesLoaded ==
    /\ \A k \in cm.meshing : Loaded(cm, k)
    /\ \A e \in scene : Loaded(cm, e.key)

\* a chunk was unloaded while its job was outstanding and the pool still
\* holds that job; the result of another job came back for a key that is
\* not loaded; a loaded chunk has geometry and another one a marker
C29_Witness ==
    /\ \E t \in HeldTasks(pool) : ~Loaded(cm, cm.reactions[t.id].key)
    /\ \E id \in 1..Len(cm.reactions) :
          pool.promise[id].state = "fulfilled" /\ ~Loaded(cm, cm.reactions[id].key)
    /\ scene # {}
    /\ cm.meshing # {}

(***************************************************************************)
(* Claims about the greedy merge (checked under SpecMesh).                 *)
(***************************************************************************)
\* the quads of the result r, as <<buffer name, quad number>>, that hold the
\* face towards dir of the voxel at pos
QuadsOver(a, r, pos, dir) ==
    {<<"opaque", q>> : q \in FacesOn(a, r.opaque, pos, dir)}
    \cup {<<"transparent", q>> : q \in FacesOn(a, r.transparent, pos, dir)}

\* the mask entry of the origin cell of quad q of buf, the cell of its
\* rectangle with the smallest u and v, in the slice of the voxel at pos
OriginEntry(a, buf, q, pos, dir) ==
    LET ax == SweepAxes(dir)
    IN  MaskEntry(a, dir, pos[ax.dAxis + 1],
                  QuadLo(a, buf, q, ax.uAxis + 1), QuadLo(a, buf, q, ax.vAxis + 1))

\* every quad of buf has 4 vertices of its own and 6 indices that name them,
\* and is a rectangle of positive width and height in a plane across its normal
FourVerticesSixIndices(buf) ==
    /\ Len(buf.positions) = 12 * QuadCount(buf)
    /\ Len(buf.normals) = 12 * QuadCount(buf)
    /\ Len(buf.uvs) = 8 * QuadCount(buf)
    /\ Len(buf.lights) = 4 * QuadCount(buf)
    /\ Len(buf.indices) = 6 * QuadCount(buf)
    /\ \A q \in 1..QuadCount(buf) :
          /\ \A n \in 1..6 :
                buf.indices[6 * (q - 1) + n] \in (4 * (q - 1))..(4 * (q - 1) + 3)
          /\ \E dir \in Dirs :
                LET ax == SweepAxes(dir)
                IN  /\ QuadNormal(buf, q) = DIRECTION_NORMALS[dir]
                    /\ QuadLo(call.args, buf, q, ax.dAxis + 1)
                          = QuadHi(call.args, buf, q, ax.dAxis + 1)
                    /\ QuadLo(call.args, buf, q, ax.uAxis + 1)
                          < QuadHi(call.args, buf, q, ax.uAxis + 1)
                    /\ QuadLo(call.args, buf, q, ax.vAxis + 1)
                          < QuadHi(call.args, buf, q, ax.vAxis + 1)

\* C30: in every result of meshChunk, for each direction and slice the
\* rectangles emitted partition the visible-face mask: a cell whose mask
\* entry is 0 lies in no quad of that direction, a cell with a non-zero
\* entry lies in exactly one, whose origin cell has the same entry (block id
\* and packed face light) and whose vertices carry that face light; and
\* every quad has 4 vertices of its own and 6 indices naming only them.
C30_MergePartitionsMask ==
    call.fn = "meshChunk" =>
        \A n \in 1..Len(call.outs) :
            LET a == call.args
                r == call.outs[n]
            IN  /\ FourVerticesSixIndices(r.opaque)
                /\ FourVerticesSixIndices(r.transparent)
                /\ \A dir \in Dirs : \A pos \in Voxels :
                      LET ax == SweepAxes(dir)
                          m  == MaskEntry(a, dir, pos[ax.dAxis + 1],
                                          pos[ax.uAxis + 1], pos[ax.vAxis + 1])
                          qs == QuadsOver(a, r, pos, dir)
                      IN  IF m = 0 THEN qs = {}
                          ELSE /\ Cardinality(qs) = 1
                               /\ \A e \in qs :
                                     LET buf == IF e[1] = "opaque" THEN r.opaque
                                                ELSE r.transparent
                                     IN  /\ OriginEntry(a, buf, e[2], pos, dir) = m
                                         /\ \A j \in 1..4 :
                                               buf.lights[4 * (e[2] - 1) + j] = m \div 256

\* a result in which cells of one slice with the same block id were kept in
\* separate quads because their face light differs, next to a quad that
\* merges more than one cell
C30_Witness ==
    /\ call.fn = "meshChunk"
    /\ call.outs # <<>>
    /\ LET a == call.args
           r == call.outs[1]
       IN  /\ \E p1, p2 \in Voxels :
                 /\ p1 # p2 /\ p1[2] = p2[2]
                 /\ MaskEntry(a, DIR_UP, p1[2], p1[1], p1[3]) # 0
                 /\ MaskEntry(a, DIR_UP, p2[2], p2[1], p2[3]) # 0
                 /\ MaskEntry(a, DIR_UP, p1[2], p1[1], p1[3]) % 256
                       = MaskEntry(a, DIR_UP, p2[2], p2[1], p2[3]) % 256
                 /\ MaskEntry(a, DIR_UP, p1[2], p1[1], p1[3])
                       # MaskEntry(a, DIR_UP, p2[2], p2[1], p2[3])
                 /\ FacesOn(a, r.opaque, p1, DIR_UP) # FacesOn(a, r.opaque, p2, DIR_UP)
           /\ \E p1, p2 \in Voxels : \E dir \in Dirs :
                 /\ p1 # p2
                 /\ QuadsOver(a, r, p1, dir) # {}
                 /\ QuadsOver(a, r, p1, dir) = QuadsOver(a, r, p2, dir)

====
